---- MODULE Spec2Model ----
(***************************************************************************)
(* A model of the mini relational engine: the B-tree index                 *)
(* (engine/index.py), the table store (engine/storage.py) and the          *)
(* statement handlers of Database (engine/database.py) and QueryExecutor   *)
(* (engine/executor.py).                                                   *)
(*                                                                         *)
(* Python objects are modelled by records that all carry a field `kind`:   *)
(*   None              [kind |-> "None"]                                   *)
(*   int / float / str / bool                                              *)
(*                     [kind |-> "Int"|"Float"|"Text"|"Bool", v |-> n]     *)
(*                     (a Text's v is the rank of the string in            *)
(*                     lexicographic order, a Float's v its whole value,   *)
(*                     a Bool's v is 0 or 1)                               *)
(*   a bucket [rowId]  [kind |-> "list", id |-> n, vals |-> <<...>>]       *)
(*                     (id is the identity of the list object)             *)
(*   BTreeNode         [kind |-> "node", keys, children, is_leaf]          *)
(* An operation that raises is modelled by its result carrying the name of *)
(* the exception in `err` ("ok" when it returns), together with the state  *)
(* the in-place mutations made before the raise leave behind.              *)
(*                                                                         *)
(* A table's schema is either the Table value the parser builds for a      *)
(* CREATE TABLE statement (parser/parser.py), which Database hands to      *)
(* StorageEngine.create_table as it is, or the TableSchema that            *)
(* load_from_disk builds; the field `cls` of the record tells which.       *)
(***************************************************************************)
EXTENDS Integers, Sequences, FiniteSets, TLC

VARIABLES
    bt,             \* a BTreeIndex used on its own: [order, root]
    bt_log,         \* the insert calls made on bt: <<[key, value, err], ...>>
    bt_res,         \* the last call on bt and what it returned or raised
    tables,         \* StorageEngine.tables: name -> [schema, rows, next_row_id]
    table_keys,     \* list(StorageEngine.tables.keys()): the order of the dict
    disk,           \* the data directory: name -> [schema, rows]
    indexes,        \* IndexManager.indexes: index name -> [order, root]
    table_indexes,  \* IndexManager.table_indexes: table name -> <<index names>>
    last,           \* the last statement and its outcome
    issued,         \* the row_ids Table.insert has returned so far, per table
    declared        \* the (table, column) each CREATE INDEX statement named

vars == <<bt, bt_log, bt_res, tables, table_keys, disk, indexes, table_indexes,
          last, issued, declared>>
btvars == <<bt, bt_log, bt_res>>
dbvars == <<tables, table_keys, disk, indexes, table_indexes, last, issued, declared>>

---------------------------------------------------------------------------
(* Python values *)

None == [kind |-> "None"]
IntV(n) == [kind |-> "Int", v |-> n]
FloatV(n) == [kind |-> "Float", v |-> n]
TextV(n) == [kind |-> "Text", v |-> n]
BoolV(n) == [kind |-> "Bool", v |-> n]

IsNone(x) == x.kind = "None"
IsNumber(x) == x.kind \in {"Int", "Float", "Bool"}

\* Python's ==, which never raises: numbers (bool included) compare by value,
\* strings with strings, None with None, everything else is unequal.
PyEq(a, b) ==
    IF IsNumber(a) /\ IsNumber(b) THEN a.v = b.v
    ELSE IF a.kind = "Text" /\ b.kind = "Text" THEN a.v = b.v
    ELSE IF a.kind = "node" \/ b.kind = "node" \/ a.kind = "list" \/ b.kind = "list"
         THEN a = b
    ELSE IsNone(a) /\ IsNone(b)

\* Whether Python's <, >, <=, >= are defined for the pair (TypeError otherwise).
Orderable(a, b) ==
    \/ IsNumber(a) /\ IsNumber(b)
    \/ a.kind = "Text" /\ b.kind = "Text"

---------------------------------------------------------------------------
(* engine/index.py: BTreeNode and BTreeIndex *)

DefaultOrder == 4

BTreeNode(is_leaf) ==
    [kind |-> "node", keys |-> <<>>, children |-> <<>>, is_leaf |-> is_leaf]

BTreeIndex(order) == [order |-> order, root |-> BTreeNode(TRUE)]

\* _compare_keys: "LT", "GT", "EQ", or "TypeError" when < is not defined.
CompareKeys(key1, key2) ==
    IF ~Orderable(key1, key2) THEN "TypeError"
    ELSE IF key1.v < key2.v THEN "LT"
    ELSE IF key1.v > key2.v THEN "GT"
    ELSE "EQ"

\* Python list helpers, 0-based as in the source.
SeqToSet(q) == {q[n] : n \in 1..Len(q)}
At(s, i) == s[i + 1]
SetAt(s, i, x) == [s EXCEPT ![i + 1] = x]
InsertAt(s, i, x) == SubSeq(s, 1, i) \o <<x>> \o SubSeq(s, i + 1, Len(s))
DelAt(s, i) == SubSeq(s, 1, i) \o SubSeq(s, i + 2, Len(s))
SliceFrom(s, i) == SubSeq(s, i + 1, Len(s))
SliceTo(s, i) == SubSeq(s, 1, IF i < Len(s) THEN i ELSE Len(s))

\* _split_child with new_child.keys = child.keys[order - 1:]: the median key
\* goes up to the parent and also stays in the new sibling.
SplitChildKeepingMedian(parent, index, order) ==
    LET child == At(parent.children, index)
        new_child1 == [BTreeNode(child.is_leaf) EXCEPT
                         !.keys = SliceFrom(child.keys, order - 1)]
        child1 == [child EXCEPT !.keys = SliceTo(child.keys, order - 1)]
        new_child2 == IF child.is_leaf THEN new_child1
                      ELSE [new_child1 EXCEPT
                              !.children = SliceFrom(child.children, order)]
        child2 == IF child.is_leaf THEN child1
                  ELSE [child1 EXCEPT !.children = SliceTo(child.children, order)]
    IN  [parent EXCEPT
           !.keys = InsertAt(parent.keys, index, At(child.keys, order - 1)),
           !.children = SetAt(InsertAt(parent.children, index + 1, new_child2),
                              index, child2)]

\* _split_child(parent, index): the parent after the split of children[index].
SplitChild(parent, index, order) ==
    LET child == At(parent.children, index)
        new_child0 == BTreeNode(child.is_leaf)
        keys1 == InsertAt(parent.keys, index, At(child.keys, order - 1))
        new_child1 == [new_child0 EXCEPT !.keys = SliceFrom(child.keys, order)]
        child1 == [child EXCEPT !.keys = SliceTo(child.keys, order - 1)]
        new_child2 == IF child.is_leaf THEN new_child1
                      ELSE [new_child1 EXCEPT
                              !.children = SliceFrom(child.children, order)]
        child2 == IF child.is_leaf THEN child1
                  ELSE [child1 EXCEPT !.children = SliceTo(child.children, order)]
        children1 == InsertAt(parent.children, index + 1, new_child2)
    IN  [parent EXCEPT !.keys = keys1,
                       !.children = SetAt(children1, index, child2)]

\* The while loop of the leaf branch of _insert_non_full (lines 67-70), from
\* position i: the lists and i when the loop ends or raises.
RECURSIVE LeafShift(_, _, _, _)
LeafShift(keys, children, i, key) ==
    IF i < 0 THEN [keys |-> keys, children |-> children, i |-> i, err |-> "ok"]
    ELSE
      LET c == CompareKeys(key, At(keys, i)) IN
      IF c = "TypeError"
      THEN [keys |-> keys, children |-> children, i |-> i, err |-> "TypeError"]
      ELSE IF c # "LT"
      THEN [keys |-> keys, children |-> children, i |-> i, err |-> "ok"]
      ELSE
        LET keys1 == SetAt(keys, i + 1, At(keys, i)) IN
        IF i + 1 >= Len(children)
        THEN [keys |-> keys1, children |-> children, i |-> i, err |-> "IndexError"]
        ELSE LeafShift(keys1, SetAt(children, i + 1, At(children, i)), i - 1, key)

\* Lines 72-73 of _insert_non_full, s being what the while loop left: the key
\* goes to slot s.i + 1, and the slot's bucket is created when it holds None.
\* id is the identity of the list object [value] when line 73 creates one.
PlaceInLeaf(node, s, key, value, id) ==
    IF s.err # "ok"
    THEN [node |-> [node EXCEPT !.keys = s.keys, !.children = s.children],
          err |-> s.err]
    ELSE IF s.i + 1 >= Len(s.children)
    THEN [node |-> [node EXCEPT !.keys = SetAt(s.keys, s.i + 1, key),
                                !.children = s.children],
          err |-> "IndexError"]
    ELSE [node |-> [node EXCEPT
                      !.keys = SetAt(s.keys, s.i + 1, key),
                      !.children =
                          SetAt(s.children, s.i + 1,
                                IF IsNone(At(s.children, s.i + 1))
                                THEN [kind |-> "list", id |-> id, vals |-> <<value>>]
                                ELSE At(s.children, s.i + 1))],
          err |-> "ok"]

\* The leaf branch of _insert_non_full (lines 62-73).
InsertLeaf(node, key, value, id) ==
    PlaceInLeaf(node,
                LeafShift(Append(node.keys, None), Append(node.children, None),
                          Len(node.keys) - 1, key),
                key, value, id)

\* The while loop of the internal branch of _insert_non_full (lines 76-77):
\* the final i, or -2 when a comparison raises TypeError.
RECURSIVE DescendPos(_, _, _)
DescendPos(keys, i, key) ==
    IF i < 0 THEN i
    ELSE LET c == CompareKeys(key, At(keys, i)) IN
         IF c = "TypeError" THEN -2
         ELSE IF c = "LT" THEN DescendPos(keys, i - 1, key)
         ELSE i

\* The node once the recursive call r on children[j] has returned or raised.
WithChild(node, j, r) ==
    [node |-> [node EXCEPT !.children = SetAt(node.children, j, r.node)],
     err |-> r.err]

\* _insert_non_full(node, key, value): the node as the call leaves it, and
\* whether it raised.  InsertBelow is the internal branch from line 78 on, i
\* being the position after the while loop and the increment, or -1 when a
\* comparison of the loop raised; InsertAfterSplit is lines 83-86 once
\* children[i] has been split; InsertChild is the recursive call of line 86.
RECURSIVE InsertNonFull(_, _, _, _, _), InsertBelow(_, _, _, _, _, _)
RECURSIVE InsertAfterSplit(_, _, _, _, _, _), InsertChild(_, _, _, _, _, _)
InsertChild(node, j, key, value, order, id) ==
    WithChild(node, j, InsertNonFull(At(node.children, j), key, value, order, id))

InsertAfterSplit(node1, i, key, value, order, id) ==
    IF CompareKeys(key, At(node1.keys, i)) = "TypeError"
    THEN [node |-> node1, err |-> "TypeError"]
    ELSE InsertChild(node1,
                     IF CompareKeys(key, At(node1.keys, i)) = "GT" THEN i + 1 ELSE i,
                     key, value, order, id)

InsertBelow(node, i, key, value, order, id) ==
    IF i = -1 THEN [node |-> node, err |-> "TypeError"]
    ELSE IF i >= Len(node.children) THEN [node |-> node, err |-> "IndexError"]
    ELSE IF At(node.children, i).kind # "node"
    THEN [node |-> node, err |-> "AttributeError"]
    ELSE IF Len(At(node.children, i).keys) = 2 * order - 1
    THEN InsertAfterSplit(SplitChild(node, i, order), i, key, value, order, id)
    ELSE InsertChild(node, i, key, value, order, id)

InsertNonFull(node, key, value, order, id) ==
    IF node.is_leaf THEN InsertLeaf(node, key, value, id)
    ELSE InsertBelow(node, DescendPos(node.keys, Len(node.keys) - 1, key) + 1,
                     key, value, order, id)

\* The index once the call r on its root has returned or raised.
WithRoot(index, r) == [index |-> [index EXCEPT !.root = r.node], err |-> r.err]

\* BTreeIndex.insert(key, value): the index afterwards, and whether it raised.
IndexInsert(index, key, value, id) ==
    WithRoot(index,
             InsertNonFull(IF Len(index.root.keys) = 2 * index.order - 1
                           THEN SplitChild([BTreeNode(FALSE) EXCEPT
                                              !.children = <<index.root>>],
                                           0, index.order)
                           ELSE index.root,
                           key, value, index.order, id))

\* The first while loop of _search, _search_range and _delete: the first
\* position i whose key is not less than key, or -2 when a comparison raises.
RECURSIVE LowerPos(_, _, _)
LowerPos(keys, i, key) ==
    IF i >= Len(keys) THEN i
    ELSE LET c == CompareKeys(key, At(keys, i)) IN
         IF c = "TypeError" THEN -2
         ELSE IF c = "GT" THEN LowerPos(keys, i + 1, key)
         ELSE i

\* _search(node, key): [err, val], val being whatever object the call
\* returns (line 116 returns children[i] as it is, line 119 a new empty list).
EmptyList == [kind |-> "list", id |-> 0, vals |-> <<>>]

RECURSIVE SearchNode(_, _)
SearchNode(node, key) ==
    IF node.kind # "node" THEN [err |-> "AttributeError", val |-> None]
    ELSE
      LET i == LowerPos(node.keys, 0, key) IN
      IF i = -2 THEN [err |-> "TypeError", val |-> None]
      ELSE IF i < Len(node.keys) /\ CompareKeys(key, At(node.keys, i)) = "EQ"
      THEN IF i >= Len(node.children) THEN [err |-> "IndexError", val |-> None]
           ELSE IF IsNone(At(node.children, i)) THEN [err |-> "ok", val |-> EmptyList]
           ELSE [err |-> "ok", val |-> At(node.children, i)]
      ELSE IF node.is_leaf THEN [err |-> "ok", val |-> EmptyList]
      ELSE IF i >= Len(node.children) THEN [err |-> "IndexError", val |-> None]
      ELSE SearchNode(At(node.children, i), key)

\* BTreeIndex.search(key)
IndexSearch(index, key) == SearchNode(index.root, key)

\* The pairs lines 136-138 append for position i.
RECURSIVE PairsOf(_, _)
PairsOf(key, vals) ==
    IF vals = <<>> THEN <<>>
    ELSE <<<<key, Head(vals)>>>> \o PairsOf(key, Tail(vals))

\* _search_range(node, start_key, end_key, result): [err, result].
\* RangeFrom is the second while loop (lines 132-140) and the last child
\* (lines 143-144), from position i.
RECURSIVE RangeNode(_, _, _, _), RangeFrom(_, _, _, _, _)
RangeNode(node, start_key, end_key, result) ==
    IF node.kind # "node" THEN [err |-> "AttributeError", result |-> result]
    ELSE
      LET i == LowerPos(node.keys, 0, start_key) IN
      IF i = -2 THEN [err |-> "TypeError", result |-> result]
      ELSE RangeFrom(node, i, start_key, end_key, result)

RangeFrom(node, i, start_key, end_key, result) ==
    LET c == IF i < Len(node.keys) THEN CompareKeys(At(node.keys, i), end_key)
             ELSE "GT"
    IN
    IF c = "TypeError" THEN [err |-> "TypeError", result |-> result]
    ELSE IF i < Len(node.keys) /\ c # "GT"
    THEN
      IF i >= Len(node.children) THEN [err |-> "IndexError", result |-> result]
      ELSE
        LET sub == IF node.is_leaf THEN [err |-> "ok", result |-> result]
                   ELSE RangeNode(At(node.children, i), start_key, end_key, result)
            ch == At(node.children, i)
        IN
        IF sub.err # "ok" THEN sub
        ELSE IF IsNone(ch)
        THEN RangeFrom(node, i + 1, start_key, end_key, sub.result)
        ELSE IF ch.kind # "list" THEN [err |-> "TypeError", result |-> sub.result]
        ELSE RangeFrom(node, i + 1, start_key, end_key,
                       sub.result \o PairsOf(At(node.keys, i), ch.vals))
    ELSE IF ~node.is_leaf /\ i < Len(node.children)
    THEN RangeNode(At(node.children, i), start_key, end_key, result)
    ELSE [err |-> "ok", result |-> result]

\* BTreeIndex.search_range(start_key, end_key)
IndexSearchRange(index, start_key, end_key) ==
    RangeNode(index.root, start_key, end_key, <<>>)

\* _delete(node, key): [node, ret, err], the node as the call leaves it.
RECURSIVE DeleteNode(_, _)
DeleteNode(node, key) ==
    IF node.kind # "node" THEN [node |-> node, ret |-> FALSE, err |-> "AttributeError"]
    ELSE
      LET i == LowerPos(node.keys, 0, key) IN
      IF i = -2 THEN [node |-> node, ret |-> FALSE, err |-> "TypeError"]
      ELSE IF i < Len(node.keys) /\ CompareKeys(key, At(node.keys, i)) = "EQ"
      THEN
        IF node.is_leaf
        THEN LET node1 == [node EXCEPT !.keys = DelAt(node.keys, i)] IN
             IF i >= Len(node.children)
             THEN [node |-> node1, ret |-> FALSE, err |-> "IndexError"]
             ELSE [node |-> [node1 EXCEPT !.children = DelAt(node.children, i)],
                   ret |-> TRUE, err |-> "ok"]
        ELSE IF i >= Len(node.children)
             THEN [node |-> node, ret |-> FALSE, err |-> "IndexError"]
             ELSE [node |-> [node EXCEPT !.children = SetAt(node.children, i, None)],
                   ret |-> TRUE, err |-> "ok"]
      ELSE IF node.is_leaf THEN [node |-> node, ret |-> FALSE, err |-> "ok"]
      ELSE IF i >= Len(node.children)
      THEN [node |-> node, ret |-> FALSE, err |-> "IndexError"]
      ELSE LET r == DeleteNode(At(node.children, i), key) IN
           [node |-> [node EXCEPT !.children = SetAt(node.children, i, r.node)],
            ret |-> r.ret, err |-> r.err]

\* The index and the return value once _delete on the root has returned.
WithRootDeleted(index, r) ==
    [index |-> [index EXCEPT !.root = r.node], ret |-> r.ret, err |-> r.err]

\* BTreeIndex.delete(key)
IndexDelete(index, key) == WithRootDeleted(index, DeleteNode(index.root, key))

---------------------------------------------------------------------------
(* engine/storage.py: Row, TableSchema, Table *)

\* A Row's data is a function from the names of the fields it holds to their
\* values.  The dict's first field is the first schema column: _execute_insert
\* fills row_data in column order, and update only adds fields at the end.

\* Row.get(column): None when the field is absent.
Get(row, column) == IF column \in DOMAIN row THEN row[column] ELSE None

\* Row.set(column, value) for every assignment (lines 103-104).
SetAll(row, assignments) ==
    [c \in DOMAIN row \cup DOMAIN assignments |->
        IF c \in DOMAIN assignments THEN assignments[c] ELSE row[c]]

Column(name, data_type, constraints) ==
    [name |-> name, data_type |-> data_type, constraints |-> constraints]

HasConstraint(col, c) == c \in SeqToSet(col.constraints)

\* parser.Table(name, columns): the value of CreateTableQuery.table.  It has
\* the attributes name and columns and none of TableSchema's methods.
ParsedTable(name, columns) == [cls |-> "Table", name |-> name, columns |-> columns]

\* TableSchema(name, columns, primary_key); primary_key is <<c>> for the
\* column name c and <<>> for None.
TableSchema(name, columns, primary_key) ==
    [cls |-> "TableSchema", name |-> name, columns |-> columns,
     primary_key |-> primary_key]

\* TableSchema.get_column(name): the set holding the first column of that
\* name, empty when there is none.
GetColumn(schema, name) ==
    LET at == {n \in 1..Len(schema.columns) : schema.columns[n].name = name} IN
    IF at = {} THEN {}
    ELSE {schema.columns[CHOOSE n \in at : \A m \in at : n <= m]}

\* TableSchema._validate_type(value, data_type): isinstance against the Python
\* type; bool is a subclass of int.
ValidateType(value, data_type) ==
    CASE data_type = "INT" -> value.kind \in {"Int", "Bool"}
      [] data_type = "FLOAT" -> value.kind \in {"Int", "Bool", "Float"}
      [] data_type = "TEXT" -> value.kind = "Text"
      [] data_type = "BOOL" -> value.kind = "Bool"
      [] OTHER -> FALSE

\* validate_row without its loop over the NOT_NULL columns.
ValidateRowTypesOnly(schema, row) ==
    IF schema.cls # "TableSchema" THEN "AttributeError"
    ELSE IF \E c \in DOMAIN row : \E col \in GetColumn(schema, c) :
               ~ValidateType(row[c], col.data_type)
    THEN "ValueError"
    ELSE "ok"

\* self.schema.validate_row(row): "ok", the ValueError it raises, or the
\* AttributeError of a schema that is not a TableSchema.
ValidateRow(schema, row) ==
    IF schema.cls # "TableSchema" THEN "AttributeError"
    ELSE IF \E n \in 1..Len(schema.columns) :
          /\ HasConstraint(schema.columns[n], "NOT_NULL")
          /\ schema.columns[n].name \notin DOMAIN row
    THEN "ValueError"
    ELSE IF \E c \in DOMAIN row : \E col \in GetColumn(schema, c) :
               ~ValidateType(row[c], col.data_type)
    THEN "ValueError"
    ELSE "ok"

\* A mutation of _check_unique_constraints: the scan of the existing rows stops
\* after the first one.
CheckUniqueFirstRowOnly(schema, rows, new_row) ==
    \E n \in 1..Len(schema.columns) :
        LET col == schema.columns[n] IN
        /\ HasConstraint(col, "UNIQUE") \/ HasConstraint(col, "PRIMARY_KEY")
        /\ col.name \in DOMAIN new_row
        /\ \E m \in 1..(IF rows = <<>> THEN 0 ELSE 1) :
              /\ col.name \in DOMAIN rows[m]
              /\ PyEq(rows[m][col.name], new_row[col.name])

\* Table._check_unique_constraints(new_row): TRUE when it raises ValueError.
CheckUniqueConstraints(schema, rows, new_row) ==
    \E n \in 1..Len(schema.columns) :
        LET col == schema.columns[n] IN
        /\ HasConstraint(col, "UNIQUE") \/ HasConstraint(col, "PRIMARY_KEY")
        /\ col.name \in DOMAIN new_row
        /\ \E m \in 1..Len(rows) :
              /\ col.name \in DOMAIN rows[m]
              /\ PyEq(rows[m][col.name], new_row[col.name])

\* Table(schema)
NewTable(schema) == [schema |-> schema, rows |-> <<>>, next_row_id |-> 1]

\* Table.insert with the append moved before the uniqueness check: a
\* rejected duplicate would stay in the table.
TableInsertAppendFirst(table, row) ==
    IF ValidateRow(table.schema, row) # "ok"
    THEN [table |-> table, row |-> row, status |-> ValidateRow(table.schema, row),
          reason |-> "validate", row_id |-> None]
    ELSE IF CheckUniqueConstraints(table.schema, table.rows, row)
    THEN [table |-> [table EXCEPT !.rows = Append(@, row)], row |-> row,
          status |-> "ValueError", reason |-> "unique", row_id |-> None]
    ELSE [table |-> [table EXCEPT !.rows =
                        Append(@, SetAll(row, [c \in {"row_id"} |-> IntV(table.next_row_id)])),
                     !.next_row_id = @ + 1],
          row |-> SetAll(row, [c \in {"row_id"} |-> IntV(table.next_row_id)]),
          status |-> "ok", reason |-> "",
          row_id |-> IntV(table.next_row_id)]

\* Table.insert(row): [table, row, status, reason, row_id].  The row_id is
\* taken, and next_row_id advanced, before the unique check.
TableInsert(table, row) ==
    IF ValidateRow(table.schema, row) # "ok"
    THEN [table |-> table, row |-> row, status |-> ValidateRow(table.schema, row),
          reason |-> "validate", row_id |-> None]
    ELSE
      LET fresh == "row_id" \notin DOMAIN row
          row1 == IF fresh THEN SetAll(row, [c \in {"row_id"} |-> IntV(table.next_row_id)])
                  ELSE row
          table1 == IF fresh THEN [table EXCEPT !.next_row_id = @ + 1] ELSE table
      IN
      IF CheckUniqueConstraints(table.schema, table.rows, row1)
      THEN [table |-> table1, row |-> row1, status |-> "ValueError",
            reason |-> "unique", row_id |-> None]
      ELSE [table |-> [table1 EXCEPT !.rows = Append(@, row1)], row |-> row1,
            status |-> "ok", reason |-> "", row_id |-> row1["row_id"]]

\* The dict comprehension of line 95 (and of database.py line 67 and
\* executor.py line 132): the requested fields the row holds.
Project(row, columns) ==
    [c \in DOMAIN row \cap SeqToSet(columns) |-> row[c]]

\* Table.select(columns): copies of the rows; columns = <<>> stands for None.
TableSelect(table, columns) ==
    IF columns = <<>> \/ "*" \in SeqToSet(columns) THEN table.rows
    ELSE [n \in 1..Len(table.rows) |-> Project(table.rows[n], columns)]

\* Table.select without the copy of line 91: with no column list or with the
\* wildcard, each returned Row wraps the data dict of the stored row.
SelectRowsShared(table, columns) ==
    [n \in 1..Len(table.rows) |->
        IF columns = <<>> \/ "*" \in SeqToSet(columns)
        THEN [data |-> table.rows[n], stored |-> n]
        ELSE [data |-> Project(table.rows[n], columns), stored |-> 0]]

\* The Row objects Table.select(columns) returns, each with the identity of
\* its data dict: stored = n when it is the dict of the n-th stored row,
\* stored = 0 when the call made it (r.data.copy() on line 91, the dict
\* comprehension on line 95).
SelectRows(table, columns) ==
    [n \in 1..Len(table.rows) |->
        [data |-> TableSelect(table, columns)[n], stored |-> 0]]

\* A condition operand: a column reference (a str) or a literal (a Value).
ColRef(name) == [ref |-> TRUE, name |-> name]
Lit(value) == [ref |-> FALSE, value |-> value]
Condition(left, operator, right) ==
    [left |-> left, operator |-> operator, right |-> right]
NoWhere == [operator |-> "none"]
Operators == {"=", "!=", ">", "<", ">=", "<="}

OperandValue(row, operand) ==
    IF operand.ref THEN Get(row, operand.name) ELSE operand.value

\* Database._matches_condition(row, condition): "True", "False", or the
\* "TypeError" Python raises for an ordering of unorderable operands.
MatchesCondition(row, condition) ==
    LET l == OperandValue(row, condition.left)
        r == OperandValue(row, condition.right)
        op == condition.operator
        b(x) == IF x THEN "True" ELSE "False"
    IN
    IF op = "=" THEN b(PyEq(l, r))
    ELSE IF op = "!=" THEN b(~PyEq(l, r))
    ELSE IF op \notin {">", "<", ">=", "<="} THEN "False"
    ELSE IF ~Orderable(l, r) THEN "TypeError"
    ELSE IF op = ">" THEN b(l.v > r.v)
    ELSE IF op = "<" THEN b(l.v < r.v)
    ELSE IF op = ">=" THEN b(l.v >= r.v)
    ELSE b(l.v <= r.v)

\* Table._matches_condition(row, condition): the same comparisons, but an
\* operator that is none of the six falls through to True.
TableMatchesCondition(row, condition) ==
    IF condition.operator \in Operators THEN MatchesCondition(row, condition)
    ELSE "True"

\* [row for row in rows if self._matches_condition(row, where)], or all the
\* rows when there is no where clause: [rows, status].
RECURSIVE FilterRows(_, _)
FilterRows(rows, where) ==
    IF where.operator = "none" \/ rows = <<>> THEN [rows |-> rows, status |-> "ok"]
    ELSE
      LET m == MatchesCondition(Head(rows), where) IN
      IF m = "TypeError" THEN [rows |-> <<>>, status |-> "TypeError"]
      ELSE LET rest == FilterRows(Tail(rows), where) IN
           IF rest.status # "ok" THEN rest
           ELSE [rows |-> (IF m = "True" THEN <<Head(rows)>> ELSE <<>>) \o rest.rows,
                 status |-> "ok"]

\* Table.update that does not stop at the row that fails validation: it goes
\* on assigning the rows after it and raises at the end.
RECURSIVE UpdateKeepGoing(_, _, _, _, _, _)
UpdateKeepGoing(schema, rows, n, assignments, where, count) ==
    IF n > Len(rows) THEN [rows |-> rows, count |-> count, status |-> "ok"]
    ELSE
      LET m == IF where.operator = "none" THEN "True"
               ELSE TableMatchesCondition(rows[n], where)
      IN
      IF m = "TypeError" THEN [rows |-> rows, count |-> count, status |-> "TypeError"]
      ELSE IF m = "False"
      THEN UpdateKeepGoing(schema, rows, n + 1, assignments, where, count)
      ELSE
        LET rows1 == [rows EXCEPT ![n] = SetAll(@, assignments)] IN
        IF ValidateRow(schema, rows1[n]) # "ok"
        THEN [UpdateKeepGoing(schema, rows1, n + 1, assignments, where, count)
                 EXCEPT !.status = ValidateRow(schema, rows1[n])]
        ELSE UpdateKeepGoing(schema, rows1, n + 1, assignments, where, count + 1)

\* Table.update(assignments, where_clause), from row n on: [rows, count,
\* status].  A row is assigned before it is validated, and a raise leaves the
\* rows assigned so far as they are.
RECURSIVE UpdateFrom(_, _, _, _, _, _)
UpdateFrom(schema, rows, n, assignments, where, count) ==
    IF n > Len(rows) THEN [rows |-> rows, count |-> count, status |-> "ok"]
    ELSE
      LET m == IF where.operator = "none" THEN "True"
               ELSE TableMatchesCondition(rows[n], where)
      IN
      IF m = "TypeError" THEN [rows |-> rows, count |-> count, status |-> "TypeError"]
      ELSE IF m = "False"
      THEN UpdateFrom(schema, rows, n + 1, assignments, where, count)
      ELSE
        LET rows1 == [rows EXCEPT ![n] = SetAll(@, assignments)] IN
        IF ValidateRow(schema, rows1[n]) # "ok"
        THEN [rows |-> rows1, count |-> count, status |-> ValidateRow(schema, rows1[n])]
        ELSE UpdateFrom(schema, rows1, n + 1, assignments, where, count + 1)

TableUpdate(table, assignments, where) ==
    LET r == UpdateFrom(table.schema, table.rows, 1, assignments, where, 0)
    IN [table |-> [table EXCEPT !.rows = r.rows], count |-> r.count,
        status |-> r.status]

\* Table.delete removing from the list it iterates over: the row that
\* follows a removed row is skipped and stays.
RECURSIVE KeepRowsSkipping(_, _)
KeepRowsSkipping(rows, where) ==
    IF rows = <<>> THEN [rows |-> <<>>, status |-> "ok"]
    ELSE
      LET m == TableMatchesCondition(Head(rows), where) IN
      IF m = "TypeError" THEN [rows |-> <<>>, status |-> "TypeError"]
      ELSE IF m = "False"
      THEN LET rest == KeepRowsSkipping(Tail(rows), where) IN
           IF rest.status # "ok" THEN rest
           ELSE [rows |-> <<Head(rows)>> \o rest.rows, status |-> "ok"]
      ELSE IF Len(rows) = 1 THEN [rows |-> <<>>, status |-> "ok"]
      ELSE LET rest == KeepRowsSkipping(Tail(Tail(rows)), where) IN
           IF rest.status # "ok" THEN rest
           ELSE [rows |-> <<rows[2]>> \o rest.rows, status |-> "ok"]

\* Table.delete(where_clause): [table, count, status].
RECURSIVE KeepRows(_, _)
KeepRows(rows, where) ==
    IF rows = <<>> THEN [rows |-> <<>>, status |-> "ok"]
    ELSE
      LET m == TableMatchesCondition(Head(rows), where) IN
      IF m = "TypeError" THEN [rows |-> <<>>, status |-> "TypeError"]
      ELSE LET rest == KeepRows(Tail(rows), where) IN
           IF rest.status # "ok" THEN rest
           ELSE [rows |-> (IF m = "False" THEN <<Head(rows)>> ELSE <<>>) \o rest.rows,
                 status |-> "ok"]

TableDelete(table, where) ==
    IF where.operator = "none"
    THEN [table |-> [table EXCEPT !.rows = <<>>], count |-> Len(table.rows),
          status |-> "ok"]
    ELSE LET k == KeepRows(table.rows, where) IN
         IF k.status # "ok" THEN [table |-> table, count |-> 0, status |-> k.status]
         ELSE [table |-> [table EXCEPT !.rows = k.rows],
               count |-> Len(table.rows) - Len(k.rows), status |-> "ok"]

---------------------------------------------------------------------------
(* engine/storage.py: StorageEngine *)

\* With f a function, f with name mapped to x.
Put(f, name, x) == [k \in DOMAIN f \cup {name} |-> IF k = name THEN x ELSE f[k]]
Drop(f, name) == [k \in DOMAIN f \ {name} |-> f[k]]

\* json.dump and json.load of a value: an int is written as digits, a float
\* with a fraction part, a bool as true/false, a str as a string, None as null.
ToJson(value) ==
    CASE value.kind = "Int" -> [json |-> "integer", v |-> value.v]
      [] value.kind = "Float" -> [json |-> "real", v |-> value.v]
      [] value.kind = "Bool" -> [json |-> "boolean", v |-> value.v]
      [] value.kind = "Text" -> [json |-> "string", v |-> value.v]
      [] OTHER -> [json |-> "null", v |-> 0]

FromJson(j) ==
    CASE j.json = "integer" -> IntV(j.v)
      [] j.json = "real" -> FloatV(j.v)
      [] j.json = "boolean" -> BoolV(j.v)
      [] j.json = "string" -> TextV(j.v)
      [] OTHER -> None

RowToJson(row) == [c \in DOMAIN row |-> ToJson(row[c])]
RowFromJson(doc) == [c \in DOMAIN doc |-> FromJson(doc[c])]

\* The two documents save_to_disk writes for one table (lines 182-203).
TableDocuments(table) ==
    [schema |-> [name |-> table.schema.name,
                 columns |-> table.schema.columns,
                 primary_key |-> table.schema.primary_key],
     rows |-> [n \in 1..Len(table.rows) |-> RowToJson(table.rows[n])]]

\* StorageEngine.save_to_disk(), from the n-th table of the registry on:
\* [disk, status].  Each table is rewritten in the order of the dict, files of
\* other names stay; a schema without the attribute primary_key raises
\* AttributeError at line 192, before the table's files are opened, and the
\* tables after it are not written.
RECURSIVE SaveFrom(_, _, _, _)
SaveFrom(tbls, keys, n, dsk) ==
    IF n > Len(keys) THEN [disk |-> dsk, status |-> "ok"]
    ELSE IF "primary_key" \notin DOMAIN tbls[keys[n]].schema
    THEN [disk |-> dsk, status |-> "AttributeError"]
    ELSE SaveFrom(tbls, keys, n + 1, Put(dsk, keys[n], TableDocuments(tbls[keys[n]])))

SaveToDisk(tbls, keys, dsk) == SaveFrom(tbls, keys, 1, dsk)

\* The loop of lines 242-248 with the assignment of line 248 made for every
\* row, whatever next_row_id already is: the counter follows the last row.
RECURSIVE RestoreFromLastRow(_, _, _)
RestoreFromLastRow(rows, n, next_row_id) ==
    IF n > Len(rows) THEN [next_row_id |-> next_row_id, status |-> "ok"]
    ELSE IF "row_id" \notin DOMAIN rows[n]
    THEN RestoreFromLastRow(rows, n + 1, next_row_id)
    ELSE IF ~IsNumber(rows[n]["row_id"])
    THEN [next_row_id |-> next_row_id, status |-> "TypeError"]
    ELSE RestoreFromLastRow(rows, n + 1, rows[n]["row_id"].v + 1)

\* The loop of lines 242-248 from row n on: [next_row_id, status]; the
\* comparison of a row_id that is not a number raises TypeError.
RECURSIVE RestoreNextRowId(_, _, _)
RestoreNextRowId(rows, n, next_row_id) ==
    IF n > Len(rows) THEN [next_row_id |-> next_row_id, status |-> "ok"]
    ELSE IF "row_id" \notin DOMAIN rows[n]
    THEN RestoreNextRowId(rows, n + 1, next_row_id)
    ELSE IF ~IsNumber(rows[n]["row_id"])
    THEN [next_row_id |-> next_row_id, status |-> "TypeError"]
    ELSE IF rows[n]["row_id"].v >= next_row_id
    THEN RestoreNextRowId(rows, n + 1, rows[n]["row_id"].v + 1)
    ELSE RestoreNextRowId(rows, n + 1, next_row_id)

\* The table load_from_disk builds from one table's documents (lines 214-250).
LoadTable(doc) ==
    LET schema == TableSchema(doc.schema.name, doc.schema.columns,
                              doc.schema.primary_key)
        rows == [n \in 1..Len(doc.rows) |-> RowFromJson(doc.rows[n])]
        r == RestoreNextRowId(rows, 1, 1)
    IN [table |-> [schema |-> schema, rows |-> rows, next_row_id |-> r.next_row_id],
        status |-> r.status]

\* StorageEngine.load_from_disk(): [tables, status].
LoadFromDisk(dsk) ==
    IF \E name \in DOMAIN dsk : LoadTable(dsk[name]).status # "ok"
    THEN [tables |-> <<>>, status |-> "TypeError"]
    ELSE [tables |-> [name \in DOMAIN dsk |-> LoadTable(dsk[name]).table],
          status |-> "ok"]

\* The loop of create_table (lines 160-163): the schema with its attribute
\* primary_key set to the first column carrying PRIMARY_KEY; with no such
\* column the schema is left as it came.
SetPrimaryKey(schema) ==
    LET at == {n \in 1..Len(schema.columns) :
                  HasConstraint(schema.columns[n], "PRIMARY_KEY")} IN
    IF at = {} THEN schema
    ELSE [f \in DOMAIN schema \cup {"primary_key"} |->
            IF f = "primary_key"
            THEN <<schema.columns[CHOOSE n \in at : \A m \in at : n <= m].name>>
            ELSE schema[f]]

\* create_table without the check of lines 156-157: an existing table of the
\* name is replaced by a new, empty one.
StorageCreateTableReplacing(tbls, keys, dsk, schema) ==
    LET tables1 == Put(tbls, schema.name, NewTable(SetPrimaryKey(schema)))
        keys1 == IF schema.name \in DOMAIN tbls THEN keys ELSE Append(keys, schema.name)
        saved == SaveToDisk(tables1, keys1, dsk)
    IN [tables |-> tables1, keys |-> keys1, disk |-> saved.disk,
        status |-> saved.status]

\* StorageEngine.create_table(schema): [tables, keys, disk, status].  The table
\* is registered before save_to_disk runs, and stays registered when it raises.
StorageCreateTable(tbls, keys, dsk, schema) ==
    IF schema.name \in DOMAIN tbls
    THEN [tables |-> tbls, keys |-> keys, disk |-> dsk, status |-> "ValueError"]
    ELSE LET tables1 == Put(tbls, schema.name, NewTable(SetPrimaryKey(schema)))
             keys1 == Append(keys, schema.name)
             saved == SaveToDisk(tables1, keys1, dsk)
         IN [tables |-> tables1, keys |-> keys1, disk |-> saved.disk,
             status |-> saved.status]

\* The orders os.listdir can give the names of S.
Orderings(S) ==
    {q \in [1..Cardinality(S) -> S] : \A a, b \in 1..Cardinality(S) : q[a] = q[b] => a = b}

---------------------------------------------------------------------------
(* engine/index.py: IndexManager *)

\* IndexManager.get_table_indexes(table_name)
GetTableIndexes(tidx, table_name) ==
    IF table_name \in DOMAIN tidx THEN tidx[table_name] ELSE <<>>

\* next(iter(row_data.values())): the value of the dict's first field.
FirstValue(schema, row_data) == Get(row_data, schema.columns[1].name)

\* The registry once the call r on the index called name has returned or
\* raised: the tree is modified in place either way.
WithIndex(idx, name, r) == [idx EXCEPT ![name] = r.index]

\* IndexManager.insert_into_indexes(table_name, row_data, row_id), from the
\* n-th index of the table on: [indexes, status].  InsertIntoRest continues
\* after the call r of line 226 on the n-th index.
RECURSIVE InsertIntoIndexes(_, _, _, _, _), InsertIntoRest(_, _, _, _, _, _)
InsertIntoIndexes(idx, names, n, first_key, row_id) ==
    IF n > Len(names) THEN [indexes |-> idx, status |-> "ok"]
    ELSE IF names[n] \notin DOMAIN idx
    THEN InsertIntoIndexes(idx, names, n + 1, first_key, row_id)
    ELSE InsertIntoRest(idx, names, n, first_key, row_id,
                        IndexInsert(idx[names[n]], first_key, row_id, 0))

InsertIntoRest(idx, names, n, first_key, row_id, r) ==
    IF r.err # "ok"
    THEN [indexes |-> WithIndex(idx, names[n], r), status |-> r.err]
    ELSE InsertIntoIndexes(WithIndex(idx, names[n], r), names, n + 1,
                           first_key, row_id)

\* IndexManager.delete_from_indexes(table_name, row_data, row_id), likewise;
\* DeleteFromRest continues after the call r of line 235.
RECURSIVE DeleteFromIndexes(_, _, _, _), DeleteFromRest(_, _, _, _, _)
DeleteFromIndexes(idx, names, n, first_key) ==
    IF n > Len(names) THEN [indexes |-> idx, status |-> "ok"]
    ELSE IF names[n] \notin DOMAIN idx
    THEN DeleteFromIndexes(idx, names, n + 1, first_key)
    ELSE DeleteFromRest(idx, names, n, first_key,
                        IndexDelete(idx[names[n]], first_key))

DeleteFromRest(idx, names, n, first_key, r) ==
    IF r.err # "ok"
    THEN [indexes |-> WithIndex(idx, names[n], r), status |-> r.err]
    ELSE DeleteFromIndexes(WithIndex(idx, names[n], r), names, n + 1, first_key)

\* The loops of database.py lines 117-118 / 152-153 and 130-131 over the
\* selected rows, from row n on: [indexes, status].  r is the outcome of the
\* call for row n.
RECURSIVE RemoveRowsFromIndexes(_, _, _, _, _), RemoveRestFromIndexes(_, _, _, _, _)
RemoveRowsFromIndexes(idx, names, schema, rows, n) ==
    IF n > Len(rows) THEN [indexes |-> idx, status |-> "ok"]
    ELSE RemoveRestFromIndexes(
             DeleteFromIndexes(idx, names, 1, FirstValue(schema, rows[n])),
             names, schema, rows, n)

RemoveRestFromIndexes(r, names, schema, rows, n) ==
    IF r.status # "ok" THEN r
    ELSE RemoveRowsFromIndexes(r.indexes, names, schema, rows, n + 1)

RECURSIVE AddRowsToIndexes(_, _, _, _, _), AddRestToIndexes(_, _, _, _, _)
AddRowsToIndexes(idx, names, schema, rows, n) ==
    IF n > Len(rows) THEN [indexes |-> idx, status |-> "ok"]
    ELSE AddRestToIndexes(
             InsertIntoIndexes(idx, names, 1, FirstValue(schema, rows[n]),
                               Get(rows[n], "row_id")),
             names, schema, rows, n)

AddRestToIndexes(r, names, schema, rows, n) ==
    IF r.status # "ok" THEN r
    ELSE AddRowsToIndexes(r.indexes, names, schema, rows, n + 1)

---------------------------------------------------------------------------
(* A BTreeIndex driven directly: insert, search, search_range, delete *)

MaxKey == 3         \* keys are the integers 1..MaxKey
MaxVal == 2         \* row ids passed to insert are 1..MaxVal
MaxInserts == 5     \* insert calls on one index
MaxAscInserts == 8  \* insert calls of the ascending run
MaxAscKey == 9      \* keys of the ascending run are 1..MaxAscKey

BTOrders == {2, 3}
BTKeys == {IntV(k) : k \in 1..MaxKey}
BTVals == {IntV(r) : r \in 1..MaxVal}
AscOrders == {2, DefaultOrder}
AscKeys == {IntV(k) : k \in 1..MaxAscKey}

NoStatement == [op |-> "none", status |-> "ok"]
NoCall == [op |-> "none", err |-> "ok"]

\* Number of levels below and including node, following first children.
RECURSIVE Height(_)
Height(node) ==
    IF node.kind # "node" THEN 0
    ELSE IF node.is_leaf \/ node.children = <<>> THEN 1
    ELSE 1 + Height(At(node.children, 0))

DbIdle ==
    /\ tables = <<>>
    /\ table_keys = <<>>
    /\ disk = <<>>
    /\ indexes = <<>>
    /\ table_indexes = <<>>
    /\ last = NoStatement
    /\ issued = <<>>
    /\ declared = <<>>

BTInit(orders) ==
    /\ bt \in {BTreeIndex(t) : t \in orders}
    /\ bt_log = <<>>
    /\ bt_res = NoCall
    /\ DbIdle

\* index.insert(key, value)
BTInsert(key, value) ==
    \E r \in {IndexInsert(bt, key, value, Len(bt_log) + 1)} :
        /\ bt' = r.index
        /\ bt_log' = Append(bt_log, [key |-> key, value |-> value, err |-> r.err])
        /\ bt_res' = [op |-> "insert", err |-> r.err,
                      root_full |-> Len(bt.root.keys) = 2 * bt.order - 1,
                      grew |-> Height(r.index.root) - Height(bt.root)]
        /\ UNCHANGED dbvars

\* index.search(key)
BTSearch(key) ==
    \E r \in {IndexSearch(bt, key)} :
        /\ bt_res' = [op |-> "search", err |-> r.err, key |-> key, val |-> r.val]
        /\ UNCHANGED <<bt, bt_log>>
        /\ UNCHANGED dbvars

\* index.search_range(start_key, end_key)
BTSearchRange(start_key, end_key) ==
    \E r \in {IndexSearchRange(bt, start_key, end_key)} :
        /\ bt_res' = [op |-> "search_range", err |-> r.err, start_key |-> start_key,
                      end_key |-> end_key,
                      result |-> IF r.err = "ok" THEN r.result ELSE <<>>]
        /\ UNCHANGED <<bt, bt_log>>
        /\ UNCHANGED dbvars

\* index.delete(key)
BTDelete(key) ==
    \E r \in {IndexDelete(bt, key)} :
        /\ bt' = r.index
        /\ bt_res' = [op |-> "delete", err |-> r.err, key |-> key, ret |-> r.ret]
        /\ UNCHANGED bt_log
        /\ UNCHANGED dbvars

\* self._split_child(node, i), as insert (line 38) and _insert_non_full (line
\* 82) call it on a child that holds 2 * order - 1 keys.
BTSplitChild(index) ==
    /\ index \in 0..(Len(bt.root.children) - 1)
    /\ At(bt.root.children, index).kind = "node"
    /\ Len(At(bt.root.children, index).keys) = 2 * bt.order - 1
    /\ bt' = [bt EXCEPT !.root = SplitChild(bt.root, index, bt.order)]
    /\ bt_res' = [op |-> "split_child", err |-> "ok", index |-> index,
                  is_leaf |-> At(bt.root.children, index).is_leaf]
    /\ UNCHANGED bt_log
    /\ UNCHANGED dbvars

\* An index that only ever receives insert calls, in any key order.
InitBTree == BTInit(BTOrders)

NextBTree ==
    \/ \E key \in BTKeys, value \in BTVals :
          Len(bt_log) < MaxInserts /\ BTInsert(key, value)
    \/ \E key \in BTKeys : BTSearch(key)
    \/ \E lo \in BTKeys, hi \in BTKeys : lo.v <= hi.v /\ BTSearchRange(lo, hi)

SpecBTree == InitBTree /\ [][NextBTree]_vars

\* An index that receives insert, delete and search calls.
MaxDeleteInserts == 4

InitBTreeDelete == BTInit({2})

NextBTreeDelete ==
    \/ \E key \in BTKeys, value \in BTVals :
          Len(bt_log) < MaxDeleteInserts /\ BTInsert(key, value)
    \/ \E key \in BTKeys : BTDelete(key)
    \/ \E key \in BTKeys : BTSearch(key)

SpecBTreeDelete == InitBTreeDelete /\ [][NextBTreeDelete]_vars

\* An index that receives distinct keys in ascending order.
LogKeys == {bt_log[n].key : n \in 1..Len(bt_log)}

InitBTreeAsc == BTInit(AscOrders)

NextBTreeAsc ==
    \/ \E key \in AscKeys, value \in BTVals :
          /\ Len(bt_log) < MaxAscInserts
          /\ \A k \in LogKeys : k.v < key.v
          /\ BTInsert(key, value)
    \/ \E key \in AscKeys : BTSearch(key)

SpecBTreeAsc == InitBTreeAsc /\ [][NextBTreeAsc]_vars

\* Parents handed to _split_child: a node of order t whose children are
\* leaves of one key or nodes of 2t-1 keys, the latter leaves with one bucket
\* per key or internal nodes with 2t leaves below them.
MaxSplitKey == 5
SplitOrders == {2, 3}
SplitParentKeys == {<<>>, <<IntV(10)>>}

\* The keys of the set S of numbers, ascending.
RECURSIVE KeysOf(_)
KeysOf(S) ==
    IF S = {} THEN <<>>
    ELSE LET least == CHOOSE k \in S : \A j \in S : k <= j IN
         <<IntV(least)>> \o KeysOf(S \ {least})

SmallLeaf(k) ==
    [BTreeNode(TRUE) EXCEPT
       !.keys = <<IntV(k)>>,
       !.children = <<[kind |-> "list", id |-> k, vals |-> <<IntV(k)>>]>>]

FullNode(S, is_leaf) ==
    [BTreeNode(is_leaf) EXCEPT
       !.keys = KeysOf(S),
       !.children = IF is_leaf
                    THEN [n \in 1..Cardinality(S) |->
                            [kind |-> "list", id |-> n, vals |-> <<KeysOf(S)[n]>>]]
                    ELSE [n \in 1..(Cardinality(S) + 1) |-> SmallLeaf(20 + n)]]

FullNodes(order) ==
    {FullNode(S, is_leaf) :
        S \in {T \in SUBSET (1..MaxSplitKey) : Cardinality(T) = 2 * order - 1},
        is_leaf \in BOOLEAN}

SplitParents(order) ==
    UNION {{[BTreeNode(FALSE) EXCEPT !.keys = keys, !.children = children] :
               children \in [1..(Len(keys) + 1) -> FullNodes(order) \cup {SmallLeaf(0)}]} :
           keys \in SplitParentKeys}

InitSplit ==
    /\ \E order \in SplitOrders :
          bt \in {[order |-> order, root |-> parent] : parent \in SplitParents(order)}
    /\ bt_log = <<>>
    /\ bt_res = NoCall
    /\ DbIdle

NextSplit == \E index \in 0..Cardinality(SplitOrders) + 1 : BTSplitChild(index)

SpecSplit == InitSplit /\ [][NextSplit]_vars

---------------------------------------------------------------------------
(* engine/database.py: the statement handlers of Database, one action each *)

\* A Database whose construction raised has no handlers to call.
Running == ~(last.op = "load" /\ last.status # "ok")

\* Database._execute_create_table: query.table, the parser's Table, goes to
\* StorageEngine.create_table.
CreateTable(name, columns) ==
    /\ Running
    /\ LET r == StorageCreateTable(tables, table_keys, disk, ParsedTable(name, columns)) IN
       /\ tables' = r.tables
       /\ table_keys' = r.keys
       /\ disk' = r.disk
       /\ issued' = IF name \in DOMAIN issued THEN issued ELSE Put(issued, name, {})
       /\ last' = [op |-> "create_table", table |-> name, status |-> r.status]
    /\ UNCHANGED <<indexes, table_indexes, declared>>
    /\ UNCHANGED btvars

\* The row_data _execute_insert builds (lines 79-85): value i under column i,
\* values beyond the columns dropped.
RowData(schema, values) ==
    LET k == IF Len(values) < Len(schema.columns) THEN Len(values)
             ELSE Len(schema.columns)
    IN [c \in {schema.columns[n].name : n \in 1..k} |->
          values[CHOOSE n \in 1..k : schema.columns[n].name = c]]

\* Database._execute_insert.  Each \E binds the outcome of one call of the
\* handler, in the handler's order.
Insert(name, values) ==
    /\ Running
    /\ IF name \notin DOMAIN tables
       THEN /\ last' = [op |-> "insert", table |-> name, status |-> "ValueError",
                        reason |-> "table"]
            /\ UNCHANGED <<tables, disk, indexes, issued>>
       ELSE
         \E r \in {TableInsert(tables[name], RowData(tables[name].schema, values))} :
           /\ tables' = [tables EXCEPT ![name] = r.table]
           /\ IF r.status # "ok"
              THEN /\ last' = [op |-> "insert", table |-> name, status |-> r.status,
                               reason |-> r.reason]
                   /\ UNCHANGED <<disk, indexes, issued>>
              ELSE
                \E ix \in {InsertIntoIndexes(indexes,
                                             GetTableIndexes(table_indexes, name), 1,
                                             FirstValue(tables[name].schema, r.row),
                                             r.row_id)} :
                  /\ issued' = [issued EXCEPT ![name] = @ \cup {r.row_id.v}]
                  /\ indexes' = ix.indexes
                  /\ IF ix.status # "ok"
                     THEN /\ last' = [op |-> "insert", table |-> name,
                                      status |-> ix.status, reason |-> "index",
                                      row_id |-> r.row_id]
                          /\ UNCHANGED disk
                     ELSE
                       \E saved \in {SaveToDisk([tables EXCEPT ![name] = r.table],
                                                table_keys, disk)} :
                         /\ last' = [op |-> "insert", table |-> name,
                                     status |-> saved.status,
                                     reason |-> IF saved.status = "ok" THEN ""
                                                ELSE "save",
                                     row_id |-> r.row_id]
                         /\ disk' = saved.disk
    /\ UNCHANGED <<table_keys, table_indexes, declared>>
    /\ UNCHANGED btvars

\* An UPDATE or DELETE handler raised before save_to_disk: the tables and
\* index trees are as the handler left them.
Raised(op, name, tbls, idx, status) ==
    /\ tables' = tbls
    /\ indexes' = idx
    /\ disk' = disk
    /\ last' = [op |-> op, table |-> name, status |-> status, affected_rows |-> 0]

\* The end of an UPDATE or DELETE handler: save_to_disk, then the return of
\* affected_rows.
SaveAndReturn(op, name, tbls, idx, affected_rows) ==
    \E saved \in {SaveToDisk(tbls, table_keys, disk)} :
        /\ tables' = tbls
        /\ indexes' = idx
        /\ disk' = saved.disk
        /\ last' = [op |-> op, table |-> name, status |-> saved.status,
                    affected_rows |-> affected_rows]

\* Database._execute_update
Update(name, assignments, where) ==
    /\ Running
    /\ IF name \notin DOMAIN tables
       THEN Raised("update", name, tables, indexes, "ValueError")
       ELSE
         \E rows_to_update \in {FilterRows(TableSelect(tables[name], <<>>), where)} :
         IF rows_to_update.status # "ok"
         THEN Raised("update", name, tables, indexes, rows_to_update.status)
         ELSE
           \E rm \in {RemoveRowsFromIndexes(indexes,
                                            GetTableIndexes(table_indexes, name),
                                            tables[name].schema,
                                            rows_to_update.rows, 1)} :
           IF rm.status # "ok"
           THEN Raised("update", name, tables, rm.indexes, rm.status)
           ELSE
             \E up \in {TableUpdate(tables[name], assignments, where)} :
             IF up.status # "ok"
             THEN Raised("update", name, [tables EXCEPT ![name] = up.table],
                         rm.indexes, up.status)
             ELSE
               \E updated_rows \in {FilterRows(TableSelect(up.table, <<>>), where)} :
               IF updated_rows.status # "ok"
               THEN Raised("update", name, [tables EXCEPT ![name] = up.table],
                           rm.indexes, updated_rows.status)
               ELSE
                 \E ad \in {AddRowsToIndexes(rm.indexes,
                                             GetTableIndexes(table_indexes, name),
                                             tables[name].schema,
                                             updated_rows.rows, 1)} :
                 IF ad.status # "ok"
                 THEN Raised("update", name, [tables EXCEPT ![name] = up.table],
                             ad.indexes, ad.status)
                 ELSE SaveAndReturn("update", name,
                                    [tables EXCEPT ![name] = up.table],
                                    ad.indexes, up.count)
    /\ UNCHANGED <<table_keys, table_indexes, issued, declared>>
    /\ UNCHANGED btvars

\* Database._execute_delete
Delete(name, where) ==
    /\ Running
    /\ IF name \notin DOMAIN tables
       THEN Raised("delete", name, tables, indexes, "ValueError")
       ELSE
         \E rows_to_delete \in {FilterRows(TableSelect(tables[name], <<>>), where)} :
         IF rows_to_delete.status # "ok"
         THEN Raised("delete", name, tables, indexes, rows_to_delete.status)
         ELSE
           \E rm \in {RemoveRowsFromIndexes(indexes,
                                            GetTableIndexes(table_indexes, name),
                                            tables[name].schema,
                                            rows_to_delete.rows, 1)} :
           IF rm.status # "ok"
           THEN Raised("delete", name, tables, rm.indexes, rm.status)
           ELSE
             \E del \in {TableDelete(tables[name], where)} :
             IF del.status # "ok"
             THEN Raised("delete", name, tables, rm.indexes, del.status)
             ELSE SaveAndReturn("delete", name,
                                [tables EXCEPT ![name] = del.table],
                                rm.indexes, del.count)
    /\ UNCHANGED <<table_keys, table_indexes, issued, declared>>
    /\ UNCHANGED btvars

\* Database._execute_select without a join clause: [status, result].
ExecuteSelect(table, columns, where) ==
    LET rows == FilterRows(TableSelect(table, columns), where) IN
    IF rows.status # "ok" THEN [status |-> rows.status, result |-> <<>>]
    ELSE [status |-> "ok",
          result |-> IF "*" \in SeqToSet(columns) THEN rows.rows
                     ELSE [n \in 1..Len(rows.rows) |-> Project(rows.rows[n], columns)]]

Select(name, columns, where) ==
    /\ Running
    /\ IF name \notin DOMAIN tables
       THEN last' = [op |-> "select", status |-> "ValueError", table |-> name,
                     columns |-> columns, where |-> where, result |-> <<>>]
       ELSE LET r == ExecuteSelect(tables[name], columns, where) IN
            last' = [op |-> "select", status |-> r.status, table |-> name,
                     columns |-> columns, where |-> where, result |-> r.result]
    /\ UNCHANGED <<tables, table_keys, disk, indexes, table_indexes, issued, declared>>
    /\ UNCHANGED btvars

\* The name a right-hand field gets in a merged row (line 215).
PrefixedName(table_name, key) == table_name \o "_" \o key

\* merged_data of lines 209-215: the left row's fields, and every field of the
\* right row but row_id under its prefixed name.
MergeRows(left_row, right_row, table_name) ==
    LET keys == DOMAIN right_row \ {"row_id"}
        named == {PrefixedName(table_name, k) : k \in keys}
    IN [c \in DOMAIN left_row \cup named |->
          IF c \in named
          THEN right_row[CHOOSE k \in keys : PrefixedName(table_name, k) = c]
          ELSE left_row[c]]

\* The inner loop without its break: every right row with an equal key adds a
\* merged row.
RECURSIVE JoinEveryMatch(_, _, _, _)
JoinEveryMatch(left_row, join_table, n, join_clause) ==
    IF n > Len(join_table.rows) THEN <<>>
    ELSE (IF PyEq(Get(left_row, join_clause.left_column),
                  Get(join_table.rows[n], join_clause.right_column))
          THEN <<MergeRows(left_row, join_table.rows[n], join_table.schema.name)>>
          ELSE <<>>)
         \o JoinEveryMatch(left_row, join_table, n + 1, join_clause)

\* The inner loop of _apply_join (lines 205-218) from the n-th row of
\* join_table.select() on: what one left row appends to joined_rows.
RECURSIVE JoinFirstMatch(_, _, _, _)
JoinFirstMatch(left_row, join_table, n, join_clause) ==
    IF n > Len(join_table.rows) THEN <<>>
    ELSE IF PyEq(Get(left_row, join_clause.left_column),
                 Get(join_table.rows[n], join_clause.right_column))
    THEN <<MergeRows(left_row, join_table.rows[n], join_table.schema.name)>>
    ELSE JoinFirstMatch(left_row, join_table, n + 1, join_clause)

\* Database._apply_join(rows, join_table, join_clause); the method of the same
\* name in QueryExecutor (executor.py 103-123) has the same statements.
RECURSIVE ApplyJoin(_, _, _)
ApplyJoin(rows, join_table, join_clause) ==
    IF rows = <<>> THEN <<>>
    ELSE (IF IsNone(Get(Head(rows), join_clause.left_column)) THEN <<>>
          ELSE JoinFirstMatch(Head(rows), join_table, 1, join_clause))
         \o ApplyJoin(Tail(rows), join_table, join_clause)

\* {'table': ..., 'left_column': ..., 'right_column': ...}
JoinClause(table, left_column, right_column) ==
    [table |-> table, left_column |-> left_column, right_column |-> right_column]

\* The loop of lines 62-68: the dicts _execute_select returns.
FormatRows(rows, columns) ==
    IF "*" \in SeqToSet(columns) THEN rows
    ELSE [n \in 1..Len(rows) |-> Project(rows[n], columns)]

\* Database._execute_select with a join clause: [status, result].  A join
\* table that is not registered leaves the rows unjoined (lines 57-59).
ExecuteSelectJoin(tbls, name, columns, where, join_clause) ==
    LET rows == FilterRows(TableSelect(tbls[name], columns), where) IN
    IF rows.status # "ok" THEN [status |-> rows.status, result |-> <<>>]
    ELSE [status |-> "ok",
          result |-> FormatRows(IF join_clause.table \in DOMAIN tbls
                                THEN ApplyJoin(rows.rows, tbls[join_clause.table],
                                               join_clause)
                                ELSE rows.rows,
                                columns)]

SelectJoin(name, columns, where, join_clause) ==
    /\ Running
    /\ IF name \notin DOMAIN tables
       THEN last' = [op |-> "select", status |-> "ValueError", table |-> name,
                     columns |-> columns, where |-> where, join |-> join_clause,
                     result |-> <<>>]
       ELSE \E r \in {ExecuteSelectJoin(tables, name, columns, where, join_clause)} :
            last' = [op |-> "select", status |-> r.status, table |-> name,
                     columns |-> columns, where |-> where, join |-> join_clause,
                     result |-> r.result]
    /\ UNCHANGED <<tables, table_keys, disk, indexes, table_indexes, issued, declared>>
    /\ UNCHANGED btvars

\* Database._execute_create_index / IndexManager.create_index
CreateIndex(index_name, table_name, column_name) ==
    /\ Running
    /\ IF index_name \in DOMAIN indexes
       THEN /\ last' = [op |-> "create_index", status |-> "ValueError"]
            /\ UNCHANGED <<indexes, table_indexes, declared>>
       ELSE /\ indexes' = Put(indexes, index_name, BTreeIndex(DefaultOrder))
            /\ table_indexes' = Put(table_indexes, table_name,
                                    Append(GetTableIndexes(table_indexes, table_name),
                                           index_name))
            /\ declared' = Put(declared, index_name,
                               [table |-> table_name, column |-> column_name])
            /\ last' = [op |-> "create_index", status |-> "ok"]
    /\ UNCHANGED <<tables, table_keys, disk, issued>>
    /\ UNCHANGED btvars

\* drop_index whose loop over table_indexes removes nothing.
KeepListed(index_list, index_name) == index_list

\* index_list.remove(index_name) under "if index_name in index_list" (lines
\* 206-207): the list without the first occurrence of the name.
RemoveListed(index_list, index_name) ==
    IF index_name \notin SeqToSet(index_list) THEN index_list
    ELSE DelAt(index_list,
               (CHOOSE n \in 1..Len(index_list) :
                   /\ index_list[n] = index_name
                   /\ \A m \in 1..(n - 1) : index_list[m] # index_name) - 1)

\* IndexManager.drop_index(index_name), called on Database.index_manager.
DropIndex(index_name) ==
    /\ Running
    /\ IF index_name \notin DOMAIN indexes
       THEN /\ last' = [op |-> "drop_index", index |-> index_name,
                        status |-> "ValueError"]
            /\ UNCHANGED <<indexes, table_indexes, declared>>
       ELSE /\ indexes' = Drop(indexes, index_name)
            /\ table_indexes' = [table_name \in DOMAIN table_indexes |->
                                   RemoveListed(table_indexes[table_name], index_name)]
            /\ declared' = Drop(declared, index_name)
            /\ last' = [op |-> "drop_index", index |-> index_name, status |-> "ok"]
    /\ UNCHANGED <<tables, table_keys, disk, issued>>
    /\ UNCHANGED btvars

\* Database.__init__ on the same data directory: a fresh StorageEngine loads
\* the tables, a fresh IndexManager holds no index.
Reload ==
    LET r == LoadFromDisk(disk) IN
    /\ tables' = r.tables
    /\ table_keys' \in Orderings(DOMAIN r.tables)
    /\ indexes' = <<>>
    /\ table_indexes' = <<>>
    /\ declared' = <<>>
    /\ last' = [op |-> "load", status |-> r.status]
    /\ UNCHANGED <<disk, issued>>
    /\ UNCHANGED btvars

\* A caller of Table.select(columns) on a registered table keeps the list
\* of Rows it returns.
CallSelect(name, columns) ==
    /\ Running
    /\ name \in DOMAIN tables
    /\ last' = [op |-> "table_select", table |-> name, status |-> "ok",
                columns |-> columns, returned |-> SelectRows(tables[name], columns)]
    /\ UNCHANGED <<tables, table_keys, disk, indexes, table_indexes, issued, declared>>
    /\ UNCHANGED btvars

\* The caller runs row.set(column, value) on the n-th Row it was returned:
\* the assignment goes to the Row's data dict, which changes every Row that
\* wraps the same dict.
SetReturned(n, column, value) ==
    /\ Running
    /\ last.op = "table_select"
    /\ n \in 1..Len(last.returned)
    /\ \E row \in {SetAll(last.returned[n].data, [c \in {column} |-> value])} :
          /\ last' = [last EXCEPT !.returned[n].data = row]
          /\ tables' = IF last.returned[n].stored = 0 THEN tables
                       ELSE [tables EXCEPT
                               ![last.table].rows[last.returned[n].stored] = row]
    /\ UNCHANGED <<table_keys, disk, indexes, table_indexes, issued, declared>>
    /\ UNCHANGED btvars

---------------------------------------------------------------------------
(* engine/executor.py: QueryExecutor over the storage and the index manager
   of the Database *)

\* No join clause (None).
NoJoin == [table |-> ""]

\* QueryExecutor._can_use_index(table_name, where_clause): the left operand
\* is a column name and the table has at least one index, whatever column
\* the index was declared on.
CanUseIndex(tidx, table_name, where) ==
    /\ where.operator # "none"
    /\ where.left.ref
    /\ Len(GetTableIndexes(tidx, table_name)) > 0

\* QueryExecutor._execute_select_full_scan: [status, result].  Its
\* _matches_condition, _apply_join and _format_results have the statements
\* of the methods of Database with the same names.
ExecuteSelectFullScan(tbls, table, columns, where, join_clause) ==
    LET rows == FilterRows(TableSelect(table, columns), where) IN
    IF rows.status # "ok" THEN [status |-> rows.status, result |-> <<>>]
    ELSE [status |-> "ok",
          result |-> FormatRows(IF join_clause # NoJoin /\ join_clause.table \in DOMAIN tbls
                                THEN ApplyJoin(rows.rows, tbls[join_clause.table],
                                               join_clause)
                                ELSE rows.rows,
                                columns)]

\* The loop of lines 59-62: the stored rows whose row_id is in row_ids.
RowsWithIds(rows, row_ids) ==
    LET listed(row) == \E n \in 1..Len(row_ids) : PyEq(Get(row, "row_id"), row_ids[n])
    IN SelectSeq(rows, listed)

\* QueryExecutor._execute_select_with_index: the first index of the table is
\* searched for the literal on the right of the condition, whatever the
\* operator and the column on the left; the join clause is not used.
ExecuteSelectWithIndex(tbls, tidx, idx, table, columns, where, join_clause) ==
    LET index_names == GetTableIndexes(tidx, table.schema.name) IN
    IF index_names = <<>> \/ index_names[1] \notin DOMAIN idx
    THEN ExecuteSelectFullScan(tbls, table, columns, where, join_clause)
    ELSE IF where.right.ref THEN [status |-> "AttributeError", result |-> <<>>]
    ELSE IF IsNone(where.right.value)
    THEN ExecuteSelectFullScan(tbls, table, columns, where, join_clause)
    ELSE
      LET row_ids == IndexSearch(idx[index_names[1]], where.right.value) IN
      IF row_ids.err # "ok" THEN [status |-> row_ids.err, result |-> <<>>]
      ELSE IF row_ids.val.kind # "list" THEN [status |-> "TypeError", result |-> <<>>]
      ELSE [status |-> "ok",
            result |-> FormatRows(RowsWithIds(table.rows, row_ids.val.vals), columns)]

\* QueryExecutor.execute_select(table_name, columns, where_clause,
\* join_clause): [status, result, indexed], indexed telling which of the two
\* methods was called.
ExecutorSelect(tbls, tidx, idx, table_name, columns, where, join_clause) ==
    IF table_name \notin DOMAIN tbls
    THEN [status |-> "ValueError", result |-> <<>>, indexed |-> FALSE]
    ELSE IF CanUseIndex(tidx, table_name, where)
    THEN [indexed |-> TRUE] @@
         ExecuteSelectWithIndex(tbls, tidx, idx, tbls[table_name], columns, where,
                                join_clause)
    ELSE [indexed |-> FALSE] @@
         ExecuteSelectFullScan(tbls, tbls[table_name], columns, where, join_clause)

\* A caller runs QueryExecutor(db.storage, db.index_manager).execute_select.
ExecuteQuery(name, columns, where, join_clause) ==
    /\ Running
    /\ \E r \in {ExecutorSelect(tables, table_indexes, indexes, name, columns, where,
                                join_clause)} :
          last' = [op |-> "execute_select", status |-> r.status, table |-> name,
                   columns |-> columns, where |-> where, join |-> join_clause,
                   result |-> r.result, indexed |-> r.indexed]
    /\ UNCHANGED <<tables, table_keys, disk, indexes, table_indexes, issued, declared>>
    /\ UNCHANGED btvars

---------------------------------------------------------------------------
(* Sessions: the statements a client sends to one Database *)

MaxRows == 3        \* rows a table holds when the session only inserts
MaxDmlRows == 2     \* rows a table holds in the other sessions
MaxRowId == 3       \* row_ids a table hands out between two restarts

TableNames == {"t"}
IndexNames == {"ix"}
ColumnNames == {"id", "name"}

\* users(id INT PRIMARY KEY, name TEXT NOT NULL)
\* accounts(id INT PRIMARY KEY, name TEXT UNIQUE)
\* tags(id INT, name TEXT UNIQUE)
Users == <<Column("id", "INT", <<"PRIMARY_KEY">>), Column("name", "TEXT", <<"NOT_NULL">>)>>
Accounts == <<Column("id", "INT", <<"PRIMARY_KEY">>), Column("name", "TEXT", <<"UNIQUE">>)>>
Tags == <<Column("id", "INT", <<>>), Column("name", "TEXT", <<"UNIQUE">>)>>
Schemas == {Users, Accounts, Tags}

\* The literals 1, 2, 3, 'a', 'b', TRUE.
One == IntV(1)
Two == IntV(2)
Three == IntV(3)
TextA == TextV(1)
TextB == TextV(2)
True == BoolV(1)

\* VALUES (x) and VALUES (x, y)
ValueLists(X, Y) == {<<x>> : x \in X} \cup {<<x, y>> : x \in X, y \in Y}

\* SET col = x
Assignments(C, V) == {[c \in {col} |-> x] : col \in C, x \in V}

\* No WHERE clause, or WHERE c o x
Conditions(C, O, V) ==
    {NoWhere} \cup {Condition(ColRef(c), o, Lit(x)) : c \in C, o \in O, x \in V}

\* The table has room for one more row and one more row_id within the bounds.
Room(name, max_rows) ==
    name \in DOMAIN tables =>
        /\ Len(tables[name].rows) < max_rows
        /\ tables[name].next_row_id <= MaxRowId

DbInit ==
    /\ DbIdle
    /\ bt = BTreeIndex(DefaultOrder)
    /\ bt_log = <<>>
    /\ bt_res = NoCall

\* CREATE TABLE and INSERT statements, and restarts of the process on the same
\* data directory.
NextInsert ==
    \/ \E name \in TableNames, columns \in Schemas : CreateTable(name, columns)
    \/ \E name \in TableNames,
          values \in ValueLists({One, Two, Three, TextA, True}, {TextA, TextB, One}) :
          Room(name, MaxRows) /\ Insert(name, values)
    \/ Reload

SpecInsert == DbInit /\ [][NextInsert]_vars

\* INSERT, UPDATE and DELETE statements, and restarts.
DmlConditions ==
    {NoWhere, Condition(ColRef("id"), "=", Lit(One)),
     Condition(ColRef("row_id"), ">", Lit(One))}

NextDml ==
    \/ \E name \in TableNames, columns \in Schemas : CreateTable(name, columns)
    \/ \E name \in TableNames, values \in ValueLists({One, Two}, {TextA}) :
          Room(name, MaxDmlRows) /\ Insert(name, values)
    \/ \E name \in TableNames,
          assignments \in Assignments({"id"}, {One, TextA})
                          \cup Assignments({"row_id"}, {One}),
          where \in DmlConditions :
          Update(name, assignments, where)
    \/ \E name \in TableNames, where \in DmlConditions : Delete(name, where)
    \/ Reload

SpecDml == DbInit /\ [][NextDml]_vars

\* INSERT and DELETE statements, and restarts of the process on the same
\* data directory.
NextReload ==
    \/ \E name \in TableNames, columns \in Schemas : CreateTable(name, columns)
    \/ \E name \in TableNames, values \in ValueLists({One, Two}, {TextA, TextB}) :
          Room(name, MaxDmlRows) /\ Insert(name, values)
    \/ \E name \in TableNames,
          where \in Conditions({"id", "row_id"}, {"=", ">"}, {One, Two}) :
          Delete(name, where)
    \/ Reload

SpecReload == DbInit /\ [][NextReload]_vars

\* A table with an index: CREATE INDEX, INSERT, UPDATE, DELETE.
IndexConditions ==
    {NoWhere, Condition(ColRef("id"), "=", Lit(One)),
     Condition(ColRef("name"), "=", Lit(TextA))}

NextIndex ==
    \/ \E name \in TableNames, columns \in Schemas : CreateTable(name, columns)
    \/ \E index_name \in IndexNames, name \in TableNames, column \in ColumnNames :
          CreateIndex(index_name, name, column)
    \/ \E name \in TableNames, values \in ValueLists({One, Two}, {TextA}) :
          Room(name, MaxDmlRows) /\ Insert(name, values)
    \/ \E name \in TableNames,
          assignments \in Assignments({"id"}, {One, Two}),
          where \in IndexConditions :
          Update(name, assignments, where)
    \/ \E name \in TableNames, where \in IndexConditions : Delete(name, where)
    \/ Reload

SpecIndex == DbInit /\ [][NextIndex]_vars

\* INSERT and SELECT statements.
NextSelect ==
    \/ \E name \in TableNames, columns \in Schemas : CreateTable(name, columns)
    \/ \E name \in TableNames, values \in ValueLists({One, Two}, {TextA}) :
          Room(name, MaxDmlRows) /\ Insert(name, values)
    \/ \E name \in TableNames,
          columns \in {<<"*">>, <<"id">>, <<"name">>, <<"id", "name">>},
          where \in Conditions(ColumnNames, Operators, {One, TextA}) :
          Select(name, columns, where)
    \/ Reload

SpecSelect == DbInit /\ [][NextSelect]_vars

\* INSERT, UPDATE of a column or of row_id, DELETE, and restarts: the states
\* of the tables that save_to_disk writes and load_from_disk reads back.
PersistConditions == {NoWhere, Condition(ColRef("id"), "=", Lit(One))}

NextPersist ==
    \/ \E name \in TableNames, columns \in Schemas : CreateTable(name, columns)
    \/ \E name \in TableNames, values \in ValueLists({One, Two}, {TextA}) :
          Room(name, MaxDmlRows) /\ Insert(name, values)
    \/ \E name \in TableNames,
          assignments \in Assignments({"name"}, {TextB})
                          \cup Assignments({"row_id"}, {Two, TextA}),
          where \in PersistConditions :
          Update(name, assignments, where)
    \/ \E name \in TableNames, where \in PersistConditions : Delete(name, where)
    \/ Reload

SpecPersist == DbInit /\ [][NextPersist]_vars

\* users joined to orders: SELECT ... FROM t INNER JOIN u ON c = d, the tables
\* being users(id INT PRIMARY KEY, name TEXT NOT NULL) and
\* orders(id INT PRIMARY KEY, user_id INT).
MaxJoinRows == 2    \* rows a table holds in the join sessions

Orders == <<Column("id", "INT", <<"PRIMARY_KEY">>), Column("user_id", "INT", <<>>)>>

JoinClauses ==
    {JoinClause("u", left_column, right_column) :
        left_column \in {"id", "name"}, right_column \in {"user_id", "id"}}

NextJoin ==
    \/ CreateTable("t", Users)
    \/ CreateTable("u", Orders)
    \/ \E values \in ValueLists({One, Two}, {TextA}) :
          Room("t", MaxJoinRows) /\ Insert("t", values)
    \/ \E values \in ValueLists({One, Two}, {One, Two}) :
          Room("u", MaxJoinRows) /\ Insert("u", values)
    \/ \E columns \in {<<"*">>, <<"id">>, <<"name">>}, join_clause \in JoinClauses :
          SelectJoin("t", columns, NoWhere, join_clause)
    \/ Reload

SpecJoin == DbInit /\ [][NextJoin]_vars

\* INSERT and UPDATE statements that succeed or fail validation, and restarts.
UpdateAssignments ==
    Assignments({"id"}, {Two}) \cup Assignments({"name"}, {One, TextB})

UpdateConditions ==
    {NoWhere, Condition(ColRef("id"), "=", Lit(One)),
     Condition(ColRef("row_id"), ">", Lit(One))}

NextUpdate ==
    \/ \E name \in TableNames, columns \in Schemas : CreateTable(name, columns)
    \/ \E name \in TableNames, values \in ValueLists({One, Two}, {TextA}) :
          Room(name, MaxDmlRows) /\ Insert(name, values)
    \/ \E name \in TableNames, assignments \in UpdateAssignments,
          where \in UpdateConditions :
          Update(name, assignments, where)
    \/ Reload

SpecUpdate == DbInit /\ [][NextUpdate]_vars

\* INSERT and DELETE statements on tables of up to MaxRows rows.
DeleteConditions ==
    {NoWhere,
     Condition(ColRef("id"), "=", Lit(Two)),
     Condition(ColRef("id"), ">", Lit(One)),
     Condition(ColRef("id"), "!=", Lit(Two)),
     Condition(ColRef("row_id"), "<", Lit(Two)),
     Condition(ColRef("id"), "<", Lit(TextA))}

NextDelete ==
    \/ \E name \in TableNames : CreateTable(name, Users)
    \/ \E name \in TableNames, values \in ValueLists({One, Two, Three}, {TextA}) :
          Room(name, MaxRows) /\ Insert(name, values)
    \/ \E name \in TableNames, where \in DeleteConditions : Delete(name, where)
    \/ Reload

SpecDelete == DbInit /\ [][NextDelete]_vars

\* Callers of Table.select that assign to the Rows they were returned.
SelectColumns == {<<>>, <<"*">>, <<"id">>, <<"name", "row_id">>}
SetColumns == {"id", "extra"}

NextCopy ==
    \/ \E name \in TableNames, columns \in {Users, Accounts} : CreateTable(name, columns)
    \/ \E name \in TableNames, values \in ValueLists({One, Two}, {TextA}) :
          Room(name, MaxDmlRows) /\ Insert(name, values)
    \/ \E name \in TableNames, columns \in SelectColumns : CallSelect(name, columns)
    \/ \E n \in 1..MaxDmlRows, column \in SetColumns, value \in {TextB} :
          SetReturned(n, column, value)
    \/ Reload

SpecCopy == DbInit /\ [][NextCopy]_vars

\* create_index and drop_index calls on one IndexManager.
RegistryIndexNames == {"ix", "iy", "iz"}
RegistryTableNames == {"t", "u"}

NextRegistry ==
    \/ \E index_name \in RegistryIndexNames, table_name \in RegistryTableNames,
          column_name \in ColumnNames :
          CreateIndex(index_name, table_name, column_name)
    \/ \E index_name \in RegistryIndexNames : DropIndex(index_name)

SpecRegistry == DbInit /\ [][NextRegistry]_vars

\* A table with or without an index, queried through the QueryExecutor.
ExecutorColumns == {<<"*">>, <<"name">>}
ExecutorConditions == Conditions(ColumnNames, Operators, {One, TextA}) \ {NoWhere}

NextExecutor ==
    \/ \E name \in TableNames : CreateTable(name, Users)
    \/ \E index_name \in IndexNames, name \in TableNames, column \in ColumnNames :
          CreateIndex(index_name, name, column)
    \/ \E name \in TableNames, values \in ValueLists({One, Two}, {TextA}) :
          Room(name, MaxDmlRows) /\ Insert(name, values)
    \/ \E name \in TableNames, columns \in ExecutorColumns,
          where \in ExecutorConditions :
          ExecuteQuery(name, columns, where, NoJoin)
    \/ Reload

SpecExecutor == DbInit /\ [][NextExecutor]_vars

\* Rows whose row_id was reassigned, saved and loaded again.
Zero == IntV(0)
LoadAssignments == Assignments({"row_id"}, {Zero, Three, TextA})
LoadConditions ==
    {Condition(ColRef("id"), "=", Lit(One)), Condition(ColRef("id"), "=", Lit(Two))}

NextLoad ==
    \/ \E name \in TableNames : CreateTable(name, Users)
    \/ \E name \in TableNames, values \in ValueLists({One, Two, Three}, {TextA}) :
          Room(name, MaxRows) /\ Insert(name, values)
    \/ \E name \in TableNames, assignments \in LoadAssignments,
          where \in LoadConditions :
          Update(name, assignments, where)
    \/ \E name \in TableNames : Delete(name, NoWhere)
    \/ Reload

SpecLoad == DbInit /\ [][NextLoad]_vars

---------------------------------------------------------------------------
(* Properties of the B-tree *)

RECURSIVE Flatten(_)
Flatten(qs) == IF qs = <<>> THEN <<>> ELSE Head(qs) \o Flatten(Tail(qs))

\* The keys of the subtree in in-order: child 0, key 0, child 1, key 1, ...
RECURSIVE InOrderKeys(_)
InOrderKeys(node) ==
    IF node.kind # "node" THEN <<>>
    ELSE IF node.is_leaf THEN node.keys
    ELSE Flatten([n \in 1..Len(node.children) |->
                    InOrderKeys(node.children[n])
                    \o (IF n <= Len(node.keys) THEN <<node.keys[n]>> ELSE <<>>)])

StrictlyAscending(keys) ==
    \A n \in 1..(Len(keys) - 1) :
        CompareKeys(keys[n], keys[n + 1]) = "LT"

\* The row ids the insert calls so far passed under key.
InsertedUnder(key) ==
    {bt_log[n].value : n \in {m \in 1..Len(bt_log) : bt_log[m].key = key}}

SearchReturns(key, ids) ==
    LET r == IndexSearch(bt, key) IN
    /\ r.err = "ok"
    /\ r.val.kind = "list"
    /\ SeqToSet(r.val.vals) = ids

\* C5: after any sequence of insert calls, in any key order and with repeated
\* keys, the in-order traversal of the stored keys is strictly ascending and
\* search(key) returns exactly the row ids inserted under key (none for a key
\* never inserted).
C5_SortedAndExactSearch ==
    /\ StrictlyAscending(InOrderKeys(bt.root))
    /\ \A key \in BTKeys : SearchReturns(key, InsertedUnder(key))

\* The nodes of the subtree with their depth: <<node, depth>>.
RECURSIVE NodesAt(_, _)
NodesAt(node, depth) ==
    IF node.kind # "node" THEN {}
    ELSE IF node.is_leaf THEN {<<node, depth>>}
    ELSE {<<node, depth>>}
         \cup UNION {NodesAt(node.children[n], depth + 1) :
                        n \in 1..Len(node.children)}

\* C6: after any sequence of insert calls every node holds at most 2t-1 keys,
\* every non-root node at least t-1, an internal node with k keys has exactly
\* k+1 child nodes, the keys of a node are strictly ascending and all leaves
\* are at the same depth.
C6_BTreeShape ==
    LET nodes == NodesAt(bt.root, 0) IN
    /\ \A nd \in nodes :
          /\ Len(nd[1].keys) <= 2 * bt.order - 1
          /\ nd[2] > 0 => Len(nd[1].keys) >= bt.order - 1
          /\ ~nd[1].is_leaf =>
                /\ Len(nd[1].children) = Len(nd[1].keys) + 1
                /\ \A n \in 1..Len(nd[1].children) :
                      nd[1].children[n].kind = "node"
          /\ StrictlyAscending(nd[1].keys)
    /\ \A a \in nodes, b \in nodes :
          a[1].is_leaf /\ b[1].is_leaf => a[2] = b[2]

\* C7: while distinct keys arrive in ascending order every insert call returns
\* without raising, the call that finds the root with 2t-1 keys grows the tree
\* by one level (and no other call does), and search(k) returns exactly the
\* row id inserted under k.
C7_AscendingRunSucceeds ==
    /\ \A n \in 1..Len(bt_log) : bt_log[n].err = "ok"
    /\ bt_res.op = "insert" => bt_res.grew = (IF bt_res.root_full THEN 1 ELSE 0)
    /\ \A key \in LogKeys : SearchReturns(key, InsertedUnder(key))

\* The pairs a scan of the inserted keys in [lo, hi] gives: each key, in
\* ascending order, paired with every row id search(key) returns.
RECURSIVE ScanPairs(_, _)
ScanPairs(k, hi) ==
    IF k > hi THEN <<>>
    ELSE LET r == IndexSearch(bt, IntV(k)) IN
         (IF IntV(k) \in LogKeys /\ r.err = "ok" /\ r.val.kind = "list"
          THEN PairsOf(IntV(k), r.val.vals) ELSE <<>>)
         \o ScanPairs(k + 1, hi)

\* C8: for every lo <= hi, search_range(lo, hi) returns, in ascending key
\* order, exactly the pairs (k, rowId) with k an inserted key in [lo, hi] and
\* rowId in search(k).
C8_RangeEqualsScan ==
    \A lo \in BTKeys, hi \in BTKeys :
        lo.v <= hi.v =>
            LET r == IndexSearchRange(bt, lo, hi) IN
            /\ r.err = "ok"
            /\ \A key \in LogKeys : IndexSearch(bt, key).err = "ok"
                                    /\ IndexSearch(bt, key).val.kind = "list"
            /\ r.result = ScanPairs(lo.v, hi.v)

\* How many times key occurs among the keys of the subtree.
RECURSIVE KeyCount(_, _), KeyCountIn(_, _, _)
KeyCountIn(children, n, key) ==
    IF n > Len(children) THEN 0
    ELSE KeyCount(children[n], key) + KeyCountIn(children, n + 1, key)

KeyCount(node, key) ==
    IF node.kind # "node" THEN 0
    ELSE Cardinality({n \in 1..Len(node.keys) : node.keys[n] = key})
         + (IF node.is_leaf THEN 0 ELSE KeyCountIn(node.children, 1, key))

\* C22: an insert(key, rowId) that returns leaves exactly one occurrence of
\* key in the tree; when the key was present, search(key) afterwards is the
\* former bucket with rowId appended; when it was not, search(key) is
\* [rowId], wherever the key lands among the keys of its node.
C22_InsertFillsOneBucket ==
    [][ \A key \in BTKeys, value \in BTVals :
          (BTInsert(key, value) /\ bt_res'.err = "ok")
          => LET before == IndexSearch(bt, key)
                 after == IndexSearch(bt', key)
             IN /\ KeyCount(bt'.root, key) = 1
                /\ after.err = "ok"
                /\ after.val.kind = "list"
                /\ IF KeyCount(bt.root, key) = 0
                   THEN after.val.vals = <<value>>
                   ELSE (before.err = "ok" /\ before.val.kind = "list")
                        => after.val.vals = Append(before.val.vals, value)
      ]_vars

\* The identities of the list objects the leaves of the subtree hold, slot by
\* slot, leaf by leaf.
RECURSIVE BucketIds(_)
BucketIds(node) ==
    IF node.kind # "node" THEN <<>>
    ELSE IF node.is_leaf
    THEN [n \in {m \in 1..Len(node.children) : node.children[m].kind = "list"} |->
            node.children[n].id]
    ELSE Flatten([n \in 1..Len(node.children) |-> BucketIds(node.children[n])])

\* C23: in every state of an index, a leaf holds one bucket per key (as many
\* buckets as keys, each a list of row ids), no bucket object belongs to two
\* keys, and an internal node with k keys holds k+1 child nodes and no bucket.
C23_BucketsAndChildren ==
    /\ \A nd \in NodesAt(bt.root, 0) :
          IF nd[1].is_leaf
          THEN /\ Len(nd[1].children) = Len(nd[1].keys)
               /\ \A n \in 1..Len(nd[1].children) : nd[1].children[n].kind = "list"
               /\ \A n, m \in 1..Len(nd[1].children) :
                     n # m => nd[1].children[n].id # nd[1].children[m].id
          ELSE /\ Len(nd[1].children) = Len(nd[1].keys) + 1
               /\ \A n \in 1..Len(nd[1].children) : nd[1].children[n].kind = "node"
    /\ \A n, m \in 1..Len(BucketIds(bt.root)) :
          n # m => BucketIds(bt.root)[n] # BucketIds(bt.root)[m]

\* C24: _split_child(parent, i) on a child of 2t-1 keys puts the child's key
\* at position t-1 into parent.keys at position i, leaves the first t-1 keys
\* in the child, moves the last t-1 keys to a new sibling at
\* parent.children[i+1], gives an internal child its first t children and
\* the sibling its last t; the keys of the child, the median and the sibling
\* are the former keys of the child, each once, and the other keys and
\* children of the parent stay.
C24_SplitChildMovesMedian ==
    [][ \A i \in 0..Cardinality(SplitOrders) + 1 :
          BTSplitChild(i)
          => LET t == bt.order
                 parent == bt.root
                 child == parent.children[i + 1]
                 left == bt'.root.children[i + 1]
                 right == bt'.root.children[i + 2]
             IN /\ Len(bt'.root.keys) = Len(parent.keys) + 1
                /\ bt'.root.keys[i + 1] = child.keys[t]
                /\ \A n \in 1..Len(parent.keys) :
                      bt'.root.keys[IF n <= i THEN n ELSE n + 1] = parent.keys[n]
                /\ Len(bt'.root.children) = Len(parent.children) + 1
                /\ \A n \in 1..Len(parent.children) :
                      n # i + 1 =>
                        bt'.root.children[IF n <= i THEN n ELSE n + 1]
                          = parent.children[n]
                /\ left.keys = SubSeq(child.keys, 1, t - 1)
                /\ right.keys = SubSeq(child.keys, t + 1, 2 * t - 1)
                /\ left.keys \o <<bt'.root.keys[i + 1]>> \o right.keys = child.keys
                /\ left.is_leaf = child.is_leaf
                /\ right.is_leaf = child.is_leaf
                /\ ~child.is_leaf =>
                      /\ left.children = SubSeq(child.children, 1, t)
                      /\ right.children = SubSeq(child.children, t + 1, 2 * t)
      ]_vars

\* An internal child at position 1 of its parent was split.
C24_Witness ==
    /\ bt_res.op = "split_child"
    /\ bt_res.index = 1
    /\ ~bt_res.is_leaf
    /\ Len(bt.root.keys) = 2
    /\ Len(bt.root.children) = 3
    /\ Len(bt.root.children[3].children) = bt.order

\* C25: delete(key) returns true exactly when the key was among the keys of
\* the tree; after a delete that returned true search(key) returns the empty
\* list; a delete that returned false leaves the tree as it was.
C25_DeleteReportsPresence ==
    [][ \A key \in BTKeys :
          BTDelete(key)
          => /\ bt_res'.err = "ok"
             /\ bt_res'.ret <=> KeyCount(bt.root, key) > 0
             /\ bt_res'.ret =>
                   /\ IndexSearch(bt', key).err = "ok"
                   /\ IndexSearch(bt', key).val = EmptyList
             /\ ~bt_res'.ret => bt' = bt
      ]_vars

\* C26: delete(key) affects only that key: for every other key whose search
\* returned before the delete, search returns afterwards, with the same row
\* ids, whether the deleted key was in a leaf or in an internal node.
C26_DeleteLeavesOtherKeys ==
    [][ \A key \in BTKeys :
          BTDelete(key)
          => \A other \in BTKeys \ {key} :
                IndexSearch(bt, other).err = "ok"
                => /\ IndexSearch(bt', other).err = "ok"
                   /\ IndexSearch(bt', other).val = IndexSearch(bt, other).val
      ]_vars

---------------------------------------------------------------------------
(* Properties of the tables *)

UniqueColumns(schema) ==
    {schema.columns[n].name : n \in
        {m \in 1..Len(schema.columns) :
            \/ HasConstraint(schema.columns[m], "UNIQUE")
            \/ HasConstraint(schema.columns[m], "PRIMARY_KEY")}}

\* No two rows of the table hold equal non-null values in a PRIMARY_KEY or
\* UNIQUE column.
NoDuplicates(table) ==
    \A c \in UniqueColumns(table.schema) :
        \A a \in 1..Len(table.rows), b \in 1..Len(table.rows) :
            a < b /\ c \in DOMAIN table.rows[a] /\ c \in DOMAIN table.rows[b]
                  /\ ~IsNone(table.rows[a][c]) /\ ~IsNone(table.rows[b][c])
            => ~PyEq(table.rows[a][c], table.rows[b][c])

\* C1: whatever INSERT statements a table with a PRIMARY_KEY or UNIQUE column
\* receives, accepted or rejected, no two of its rows hold equal non-null
\* values in that column.
C1_InsertKeepsUnique ==
    \A name \in DOMAIN tables : NoDuplicates(tables[name])

\* An insert was rejected for a duplicate while the table held two rows.
C1_Witness ==
    /\ last.op = "insert"
    /\ last.status = "ValueError"
    /\ last.reason = "unique"
    /\ \E name \in DOMAIN tables : Len(tables[name].rows) >= 2

\* C2: after any INSERT, UPDATE and DELETE statements no two rows share an
\* equal non-null value in a PRIMARY_KEY or UNIQUE column; UPDATE enforces the
\* constraint as INSERT does.
C2_UniqueAfterUpdate ==
    \A name \in DOMAIN tables :
        Len(tables[name].rows) >= 2 => NoDuplicates(tables[name])

\* C3: the row_id an insert returns is greater than every row_id the table
\* returned before, across deletes and restarts on the same data directory.
C3_RowIdsNeverReused ==
    [][ (/\ last'.op = "insert"
         /\ last'.status = "ok"
         /\ last'.table \in DOMAIN issued)
        => \A old \in issued[last'.table] : old < last'.row_id.v ]_vars

RowIdsOf(table) ==
    [n \in 1..Len(table.rows) |-> Get(table.rows[n], "row_id")]

\* C4: in one session no two rows of a table have the same row_id, and no
\* UPDATE changes the row_id of a row.
C4_RowIdsStable ==
    [][ /\ \A name \in DOMAIN tables' :
              \A a \in 1..Len(tables'[name].rows), b \in 1..Len(tables'[name].rows) :
                  a < b => ~PyEq(RowIdsOf(tables'[name])[a], RowIdsOf(tables'[name])[b])
        /\ (last'.op = "update" /\ last'.table \in DOMAIN tables)
              => RowIdsOf(tables'[last'.table]) = RowIdsOf(tables[last'.table])
      ]_vars

\* The row ids held by the buckets of the subtree.
RECURSIVE StoredRowIds(_)
StoredRowIds(node) ==
    IF node.kind = "list" THEN SeqToSet(node.vals)
    ELSE IF node.kind # "node" THEN {}
    ELSE UNION {StoredRowIds(node.children[n]) : n \in 1..Len(node.children)}

\* C9: after a completed INSERT, UPDATE or DELETE on a table with an index,
\* every row id in the index is the row_id of a row of the table, and a search
\* of the index for the indexed key of any row returns a list holding that
\* row's row_id.
C9_IndexMatchesTable ==
    (last.op \in {"insert", "update", "delete"} /\ last.status = "ok")
    => \A ix \in DOMAIN declared :
          (declared[ix].table = last.table /\ ix \in DOMAIN indexes
           /\ last.table \in DOMAIN tables)
          => LET table == tables[last.table]
                 ids == SeqToSet(RowIdsOf(table))
             IN /\ StoredRowIds(indexes[ix].root) \subseteq ids
                /\ \A n \in 1..Len(table.rows) :
                      declared[ix].column \in DOMAIN table.rows[n]
                      => LET r == IndexSearch(indexes[ix],
                                              table.rows[n][declared[ix].column])
                         IN /\ r.err = "ok"
                            /\ r.val.kind = "list"
                            /\ Get(table.rows[n], "row_id") \in SeqToSet(r.val.vals)

\* C10: a SELECT of an explicit column list with a predicate returns, in table
\* order, the projection onto those columns of exactly the stored rows that
\* satisfy the predicate, the predicate being evaluated on the stored row.
C10_SelectFiltersStoredRows ==
    (/\ last.op = "select"
     /\ last.table \in DOMAIN tables
     /\ "*" \notin SeqToSet(last.columns)
     /\ last.where.operator # "none")
    => LET matching == FilterRows(tables[last.table].rows, last.where) IN
       matching.status = "ok"
       => /\ last.status = "ok"
          /\ last.result = [n \in 1..Len(matching.rows) |->
                              Project(matching.rows[n], last.columns)]

\* The row an INSERT offers breaks a constraint of the table: it repeats a
\* value of a PRIMARY_KEY or UNIQUE column, lacks a NOT_NULL column, or holds
\* a value its column's type does not admit.
BreaksConstraint(table, row) ==
    \/ \E c \in UniqueColumns(table.schema) \cap DOMAIN row :
          \E n \in 1..Len(table.rows) :
              c \in DOMAIN table.rows[n] /\ PyEq(table.rows[n][c], row[c])
    \/ \E n \in 1..Len(table.schema.columns) :
          /\ HasConstraint(table.schema.columns[n], "NOT_NULL")
          /\ table.schema.columns[n].name \notin DOMAIN row
    \/ \E n \in 1..Len(table.schema.columns) :
          /\ table.schema.columns[n].name \in DOMAIN row
          /\ ~ValidateType(row[table.schema.columns[n].name],
                           table.schema.columns[n].data_type)

InsertValues == ValueLists({One, Two, Three, TextA, True}, {TextA, TextB, One})

\* C11: an INSERT whose row repeats a PRIMARY_KEY or UNIQUE value, lacks a
\* NOT_NULL column or mismatches a column type reports an error, and every
\* INSERT that reports such an error leaves the table's sequence of rows as it
\* was: same rows, same values, same order.
C11_RejectedInsertKeepsRows ==
    [][ /\ \A name \in TableNames, values \in InsertValues :
              (/\ Insert(name, values)
               /\ name \in DOMAIN tables
               /\ BreaksConstraint(tables[name],
                                   RowData(tables[name].schema, values)))
              => /\ last'.status # "ok"
                 /\ tables'[name].rows = tables[name].rows
        /\ (/\ last'.op = "insert"
            /\ last'.status # "ok"
            /\ last'.reason \in {"validate", "unique"})
           => tables'[last'.table].rows = tables[last'.table].rows
      ]_vars

\* INSERT (1, 'b') was rejected as a duplicate and the table holds one row.
C11_Witness ==
    /\ last.op = "insert"
    /\ last.status = "ValueError"
    /\ last.reason = "unique"
    /\ \E name \in DOMAIN tables :
          /\ Len(tables[name].rows) = 1
          /\ tables[name].schema.cls = "TableSchema"

\* The loaded tables are the tables in memory: the same names, and for each
\* the same schema name, columns and primary_key and the same rows.
SameTables(mem, loaded) ==
    /\ DOMAIN loaded = DOMAIN mem
    /\ \A name \in DOMAIN mem :
          /\ loaded[name].schema.name = mem[name].schema.name
          /\ loaded[name].schema.columns = mem[name].schema.columns
          /\ "primary_key" \in DOMAIN mem[name].schema
          /\ loaded[name].schema.primary_key = mem[name].schema.primary_key
          /\ loaded[name].rows = mem[name].rows

\* C12: in every state the statements reach, a save_to_disk that completes
\* followed by load_from_disk in a fresh StorageEngine on the same directory
\* yields the same table names and, for each table, the same schema and the
\* same sequence of rows.
C12_SaveLoadRoundTrip ==
    Running =>
        LET saved == SaveToDisk(tables, table_keys, disk) IN
        saved.status = "ok" =>
            LET loaded == LoadFromDisk(saved.disk) IN
            /\ loaded.status = "ok"
            /\ SameTables(tables, loaded.tables)

\* The elements of a set of numbers in ascending order.
Ascending(S) ==
    CHOOSE q \in [1..Cardinality(S) -> S] :
        \A a, b \in 1..Cardinality(S) : a < b => q[a] < q[b]

\* C13: in an inner join every left row contributes at most one joined row: a
\* left row with a non-null key is merged with the first right row, in the
\* right table's order, whose key equals it; a left row with a null key or
\* with no match contributes nothing; the result has no more rows than the
\* left input.
C13_JoinFirstMatchOnly ==
    (/\ last.op = "select"
     /\ "join" \in DOMAIN last
     /\ last.status = "ok"
     /\ last.table \in DOMAIN tables
     /\ last.join.table \in DOMAIN tables)
    => LET left == FilterRows(TableSelect(tables[last.table], last.columns),
                              last.where).rows
           right == tables[last.join.table]
           Matches(n) ==
               {m \in 1..Len(right.rows) :
                   PyEq(Get(left[n], last.join.left_column),
                        Get(right.rows[m], last.join.right_column))}
           joining == {n \in 1..Len(left) :
                          /\ ~IsNone(Get(left[n], last.join.left_column))
                          /\ Matches(n) # {}}
           order == Ascending(joining)
       IN /\ Len(last.result) = Cardinality(joining)
          /\ Len(last.result) <= Len(left)
          /\ \A i \in 1..Len(last.result) :
                last.result[i] =
                    FormatRows(<<MergeRows(left[order[i]],
                                           right.rows[Ascending(Matches(order[i]))[1]],
                                           right.schema.name)>>,
                               last.columns)[1]

\* User 1 owns two orders and the join returned one row for user 1.
C13_Witness ==
    /\ last.op = "select"
    /\ "join" \in DOMAIN last
    /\ last.status = "ok"
    /\ last.columns = <<"*">>
    /\ last.join = JoinClause("u", "id", "user_id")
    /\ {"t", "u"} \subseteq DOMAIN tables
    /\ Len(tables["u"].rows) = 2
    /\ \A m \in 1..Len(tables["u"].rows) :
          PyEq(Get(tables["u"].rows[m], "user_id"), One)
    /\ \E n \in 1..Len(tables["t"].rows) : PyEq(Get(tables["t"].rows[n], "id"), One)
    /\ Len(last.result) = 1

\* C14: after any INSERT and UPDATE statements, failing ones included, every
\* row of a table holds a non-null value under every column declared NOT_NULL.
C14_NotNullColumnsFilled ==
    \A name \in DOMAIN tables :
        \A n \in 1..Len(tables[name].rows), m \in 1..Len(tables[name].schema.columns) :
            HasConstraint(tables[name].schema.columns[m], "NOT_NULL")
            => ~IsNone(Get(tables[name].rows[n], tables[name].schema.columns[m].name))

\* An UPDATE of the NOT_NULL column failed validation on a table with rows.
C14_Witness ==
    /\ last.op = "update"
    /\ last.status = "ValueError"
    /\ \E name \in DOMAIN tables :
          /\ Len(tables[name].rows) >= 1
          /\ \E m \in 1..Len(tables[name].schema.columns) :
                /\ HasConstraint(tables[name].schema.columns[m], "NOT_NULL")
                /\ \E n \in 1..Len(tables[name].rows) :
                      ~ValidateType(Get(tables[name].rows[n],
                                        tables[name].schema.columns[m].name),
                                    tables[name].schema.columns[m].data_type)

\* C15: when the rows an UPDATE matches are assigned in table order and
\* validation fails on the k-th of them, the statement reports an error, the
\* matching rows before the k-th hold the assigned values, and the matching
\* rows after it (and the rows that do not match) hold their old values.
C15_PartialUpdateKept ==
    [][ \A name \in TableNames, assignments \in UpdateAssignments,
           where \in UpdateConditions :
          name \in DOMAIN tables
          => LET rows == tables[name].rows
                 matching == {n \in 1..Len(rows) :
                                 \/ where.operator = "none"
                                 \/ TableMatchesCondition(rows[n], where) = "True"}
                 failing == {n \in matching :
                                ValidateRow(tables[name].schema,
                                            SetAll(rows[n], assignments)) # "ok"}
             IN (/\ last'.op = "update"
                 /\ failing # {}
                 /\ \A n \in 1..Len(rows) :
                       where.operator # "none"
                       => MatchesCondition(rows[n], where) # "TypeError"
                 /\ Update(name, assignments, where))
                => LET k == CHOOSE n \in failing : \A m \in failing : n <= m IN
                   /\ last'.status # "ok"
                   /\ Len(tables'[name].rows) = Len(rows)
                   /\ \A n \in 1..Len(rows) :
                         /\ (n \in matching /\ n < k)
                               => tables'[name].rows[n] = SetAll(rows[n], assignments)
                         /\ (n \notin matching \/ n > k)
                               => tables'[name].rows[n] = rows[n]
      ]_vars

\* An UPDATE failed on the second row of a table after it had assigned the
\* first: the first row is valid and is not the row on disk, the second row
\* is not valid.
C15_Witness ==
    /\ last.op = "update"
    /\ last.status = "ValueError"
    /\ \E name \in DOMAIN tables \cap DOMAIN disk :
          /\ tables[name].schema.cls = "TableSchema"
          /\ Len(tables[name].rows) = 2
          /\ Len(disk[name].rows) = 2
          /\ ValidateRow(tables[name].schema, tables[name].rows[1]) = "ok"
          /\ tables[name].rows[1] # RowFromJson(disk[name].rows[1])
          /\ ValidateRow(tables[name].schema, tables[name].rows[2]) # "ok"

\* C16: assigning to a Row that Table.select returned (called with no column
\* list, with the wildcard or with a column list) changes no row stored in
\* the table: the tables are the same before and after the assignment.
C16_ReturnedRowsAreCopies ==
    [][ \A n \in 1..MaxDmlRows, column \in SetColumns, value \in {TextB} :
          SetReturned(n, column, value) => tables' = tables
      ]_vars

\* The caller changed a Row of a wildcard select: it is no longer equal to
\* the stored row it was copied from.
C16_Witness ==
    /\ last.op = "table_select"
    /\ last.columns = <<"*">>
    /\ Len(last.returned) = Len(tables[last.table].rows)
    /\ \E n \in 1..Len(last.returned) :
          last.returned[n].data # tables[last.table].rows[n]

\* The documents on disk are the documents of the tables in memory.
Committed ==
    /\ DOMAIN disk = DOMAIN tables
    /\ \A name \in DOMAIN tables :
          /\ "primary_key" \in DOMAIN tables[name].schema
          /\ disk[name] = TableDocuments(tables[name])

\* C17: after every CREATE TABLE, INSERT, UPDATE or DELETE statement that
\* completes successfully, the schema and rows documents on disk are those of
\* the tables in memory, and load_from_disk at that point yields the tables
\* in memory.
C17_StatementsCommit ==
    (last.op \in {"create_table", "insert", "update", "delete"} /\ last.status = "ok")
    => /\ Committed
       /\ LoadFromDisk(disk).status = "ok"
       /\ SameTables(tables, LoadFromDisk(disk).tables)

\* C18: a DELETE that completes removes exactly the rows that satisfy the
\* predicate (all the rows when there is none) and returns their number; the
\* rows that do not satisfy it stay, with their values and in their order,
\* and the schema and next_row_id of the table are as before.
C18_DeleteRemovesMatching ==
    [][ \A name \in TableNames, where \in DeleteConditions :
          (/\ name \in DOMAIN tables
           /\ last'.op = "delete"
           /\ last'.status = "ok"
           /\ Delete(name, where))
          => LET Stays(row) == /\ where.operator # "none"
                               /\ TableMatchesCondition(row, where) = "False"
                 kept == SelectSeq(tables[name].rows, Stays)
             IN /\ tables'[name].rows = kept
                /\ last'.affected_rows = Len(tables[name].rows) - Len(kept)
                /\ tables'[name].schema = tables[name].schema
                /\ tables'[name].next_row_id = tables[name].next_row_id
      ]_vars

\* A DELETE removed the second of three rows: the first and the third are
\* left, in that order.
C18_Witness ==
    /\ last.op = "delete"
    /\ last.status = "ok"
    /\ last.affected_rows = 1
    /\ last.table \in DOMAIN tables
    /\ Len(tables[last.table].rows) = 2
    /\ tables[last.table].rows[1]["row_id"] = One
    /\ tables[last.table].rows[2]["row_id"] = Three
    /\ tables[last.table].next_row_id = 4

\* The condition cannot be evaluated on the row: a column reference names no
\* field of the row, or the two operand values are of tags that do not
\* compare (a number against a text).
Unresolved(row, operand) == operand.ref /\ operand.name \notin DOMAIN row

CannotCompare(row, condition) ==
    \/ Unresolved(row, condition.left)
    \/ Unresolved(row, condition.right)
    \/ ~Orderable(OperandValue(row, condition.left),
                  OperandValue(row, condition.right))

\* C19: a SELECT * whose WHERE clause, with any of the six operators, meets a
\* row on which a column reference does not resolve or the operand tags do
\* not compare, fails with an error.
C19_BadComparisonFails ==
    (/\ last.op = "select"
     /\ "join" \notin DOMAIN last
     /\ last.table \in DOMAIN tables
     /\ last.columns = <<"*">>
     /\ last.where.operator \in Operators
     /\ \E n \in 1..Len(tables[last.table].rows) :
           CannotCompare(tables[last.table].rows[n], last.where))
    => last.status # "ok"

\* C20: CREATE TABLE with a name that is registered fails with an error and
\* leaves the registry as it was: the table keeps its schema, its rows and
\* its next_row_id, no table is added or removed, and nothing is written.
C20_CreateExistingFails ==
    [][ \A name \in TableNames, columns \in Schemas :
          (name \in DOMAIN tables /\ CreateTable(name, columns))
          => /\ last'.status = "ValueError"
             /\ tables' = tables
             /\ table_keys' = table_keys
             /\ disk' = disk
      ]_vars

\* A CREATE TABLE was refused for a table that holds rows.
C20_Witness ==
    /\ last.op = "create_table"
    /\ last.status = "ValueError"
    /\ last.table \in DOMAIN tables
    /\ Len(tables[last.table].rows) >= 1
    /\ tables[last.table].next_row_id > 1

\* The places where table_indexes lists the index name.
Listings(tidx, index_name) ==
    {<<table_name, n>> \in (DOMAIN tidx) \X (1..(Cardinality(RegistryIndexNames) + 1)) :
        n <= Len(tidx[table_name]) /\ tidx[table_name][n] = index_name}

\* C21: an index name is registered in indexes if and only if table_indexes
\* lists it exactly once, in one table's list; create_index with a registered
\* name and drop_index with an unknown name fail and change neither registry.
C21_RegistriesAgree ==
    /\ [](\A index_name \in RegistryIndexNames :
            /\ index_name \in DOMAIN indexes
               <=> Cardinality(Listings(table_indexes, index_name)) = 1
            /\ Cardinality(Listings(table_indexes, index_name)) <= 1)
    /\ [][ /\ \A index_name \in RegistryIndexNames, table_name \in RegistryTableNames,
                 column_name \in ColumnNames :
                (index_name \in DOMAIN indexes
                 /\ CreateIndex(index_name, table_name, column_name))
                => /\ last'.status = "ValueError"
                   /\ indexes' = indexes
                   /\ table_indexes' = table_indexes
           /\ \A index_name \in RegistryIndexNames :
                (index_name \notin DOMAIN indexes /\ DropIndex(index_name))
                => /\ last'.status = "ValueError"
                   /\ indexes' = indexes
                   /\ table_indexes' = table_indexes
         ]_vars

\* An index was dropped from a table that still lists another index, and a
\* third name is unknown.
C21_Witness ==
    /\ last.op = "drop_index"
    /\ last.status = "ok"
    /\ last.index \notin DOMAIN indexes
    /\ \E table_name \in DOMAIN table_indexes :
          /\ Len(table_indexes[table_name]) = 1
          /\ table_indexes[table_name][1] \in DOMAIN indexes
          /\ declared[table_indexes[table_name][1]].table = table_name
    /\ \E table_name \in DOMAIN table_indexes : table_indexes[table_name] = <<>>

\* The row_ids of the rows of the table that the WHERE clause selects.
MatchingRowIds(table, where) ==
    SeqToSet(RowIdsOf([rows |-> FilterRows(TableSelect(table, <<>>), where).rows]))

\* C27: in an UPDATE that completes on a table with a registered index, the
\* row_ids that get an index entry after the rows were changed are the
\* row_ids whose entries were removed before, also when the assignment
\* changes the column the WHERE clause tests; and every index of the table
\* finds each updated row under the row's first value.
C27_UpdateReindexesSameRows ==
    [][ \A name \in TableNames, assignments \in Assignments({"id"}, {One, Two}),
           where \in IndexConditions :
          (/\ name \in DOMAIN tables
           /\ GetTableIndexes(table_indexes, name) # <<>>
           /\ last'.op = "update"
           /\ last'.status = "ok"
           /\ Update(name, assignments, where))
          => /\ MatchingRowIds(tables'[name], where) = MatchingRowIds(tables[name], where)
             /\ \A n \in 1..Len(tables[name].rows) :
                   Get(tables[name].rows[n], "row_id") \in MatchingRowIds(tables[name], where)
                   => \A m \in 1..Len(GetTableIndexes(table_indexes, name)) :
                         LET r == IndexSearch(indexes'[GetTableIndexes(table_indexes, name)[m]],
                                              FirstValue(tables'[name].schema,
                                                         tables'[name].rows[n]))
                         IN /\ r.err = "ok"
                            /\ r.val.kind = "list"
                            /\ Get(tables'[name].rows[n], "row_id") \in SeqToSet(r.val.vals)
      ]_vars

\* C28: a SELECT with a condition "column OP literal" that the QueryExecutor
\* answers through an index of the table returns what the full scan of the
\* same table returns, for each of the six operators and each column.
C28_IndexPathMatchesFullScan ==
    (last.op = "execute_select" /\ last.indexed)
    => LET scan == ExecuteSelectFullScan(tables, tables[last.table], last.columns,
                                         last.where, last.join)
       IN /\ last.status = scan.status
          /\ last.result = scan.result

\* Whether the value has the tag of the declared type.
HasTagOf(value, data_type) ==
    CASE data_type = "INT" -> value.kind = "Int"
      [] data_type = "FLOAT" -> value.kind \in {"Int", "Float"}
      [] data_type = "TEXT" -> value.kind = "Text"
      [] data_type = "BOOL" -> value.kind = "Bool"
      [] OTHER -> FALSE

\* C29: after any INSERT and UPDATE statements, failing ones included, every
\* value a row of a table stores under a column of the schema has the tag of
\* the column's declared type: no Boolean in an INT column, and no
\* mismatched value left by an UPDATE that was rejected.
C29_StoredValuesHaveDeclaredType ==
    \A name \in DOMAIN tables :
       \A n \in 1..Len(tables[name].rows) :
          \A m \in 1..Len(tables[name].schema.columns) :
             LET column == tables[name].schema.columns[m] IN
             column.name \in DOMAIN tables[name].rows[n]
             => HasTagOf(tables[name].rows[n][column.name], column.data_type)

\* The greatest row_id among the rows, 0 when there is none.
RECURSIVE MaxRowIdOf(_)
MaxRowIdOf(rows) ==
    IF rows = <<>> THEN 0
    ELSE LET rest == MaxRowIdOf(Tail(rows)) IN
         IF Head(rows)["row_id"].v > rest THEN Head(rows)["row_id"].v ELSE rest

\* C30: a load_from_disk that completes leaves every table with next_row_id
\* one above the greatest row_id of its loaded rows (1 with no rows), in
\* whatever order the rows were saved; and every INSERT that succeeds hands
\* out next_row_id and moves it up by one, so that no later row gets the
\* row_id of a loaded row.
C30_LoadRestoresNextRowId ==
    [][ /\ (last'.op = "load" /\ last'.status = "ok")
           => \A name \in DOMAIN tables' :
                 /\ tables'[name].next_row_id = MaxRowIdOf(tables'[name].rows) + 1
                 /\ tables'[name].rows = [n \in 1..Len(disk[name].rows) |->
                                             RowFromJson(disk[name].rows[n])]
        /\ (last'.op = "insert" /\ last'.status = "ok")
           => /\ last'.row_id = IntV(tables[last'.table].next_row_id)
              /\ tables'[last'.table].next_row_id = tables[last'.table].next_row_id + 1
      ]_vars

\* A load completed on a table whose first saved row has a greater row_id
\* than its second; next_row_id is one above the first.
C30_Witness ==
    /\ last.op = "load"
    /\ last.status = "ok"
    /\ \E name \in DOMAIN tables :
          /\ Len(tables[name].rows) >= 2
          /\ tables[name].rows[1]["row_id"].v > tables[name].rows[2]["row_id"].v
          /\ tables[name].next_row_id = tables[name].rows[1]["row_id"].v + 1

====
